---- MODULE Spec2Model ----
(***************************************************************************)
(* URLQueue of backend/src/async_queue.py: a deduplicating priority queue  *)
(* (asyncio.PriorityQueue over heapq) consumed by a pool of worker         *)
(* coroutines, with retry, completion waiting, stop and checkpointing.     *)
(* Every action is one run of a coroutine between two suspension points of *)
(* the asyncio event loop, which is the granularity at which the tasks     *)
(* interleave.                                                             *)
(***************************************************************************)
EXTENDS Integers, Sequences, FiniteSets, TLC

(* ---------------------------------------------------------------- bounds *)
MaxUrls == 2
MaxQueueSize == 1
MaxRetries == 1
MaxCallbackErrors == 1
MaxSaves == 1
MaxAttempts == 2
MaxFetches == 2
MaxBurst == 2
MaxTime == 3
MaxCallers == 2
MaxAcquires == 4
MaxResolution == 2
MaxStops == 2
MaxPages == 3
MaxSegments == 2
MaxPathLen == 3
MaxQueryLen == 2

\* the worker pool of the test fixture, URLQueue(max_workers=2, ...)
FixtureWorkers == 2

(* -------------------------------------------------------------- Priority *)
CRITICAL == 0
HIGH == 1
NORMAL == 2
LOW == 3
Priority == {CRITICAL, HIGH, NORMAL, LOW}

\* Priority.name, as save_state writes it
PriorityName(p) ==
    CASE p = CRITICAL -> "CRITICAL"
      [] p = HIGH -> "HIGH"
      [] p = NORMAL -> "NORMAL"
      [] p = LOW -> "LOW"

\* Priority[name], as load_state reads it
PriorityByName(n) == CHOOSE p \in Priority : PriorityName(p) = n

(* ------------------------------------------------------------------ URLs *)
\* A URL as urlparse splits it; path, query and fragment are sequences of
\* tokens, "/" being the only token that stands for the slash character.
Segments == <<"a", "b", "c", "d", "e">>

Url(path, query, fragment) ==
    [scheme |-> "http", netloc |-> "x", path |-> path,
     query |-> query, fragment |-> fragment]

\* str.rstrip('/')
RECURSIVE rstrip(_)
rstrip(s) ==
    IF s # <<>> /\ s[Len(s)] = "/" THEN rstrip(SubSeq(s, 1, Len(s) - 1)) ELSE s

_normalize_url(parsed) ==
    LET normalized == <<parsed.scheme, "://", parsed.netloc>> \o parsed.path
        withq == IF parsed.query # <<>>
                    THEN normalized \o <<"?">> \o parsed.query
                    ELSE normalized
    IN rstrip(withq)

\* The URLs offered to the queue: each page plain, with a trailing slash and
\* with a fragment.
RawUrls(n) ==
    UNION { { Url(<<"/", Segments[i]>>, <<>>, <<>>),
              Url(<<"/", Segments[i], "/">>, <<>>, <<>>),
              Url(<<"/", Segments[i]>>, <<>>, <<"f">>) } : i \in 1..n }

Urls == { _normalize_url(r) : r \in RawUrls(Len(Segments)) }

(* -------------------------------------------------------------- metadata *)
\* metadata or {} of add_url; the crawl engine's seeds carry is_index = True
\* and the pages found on them is_index = False.
NoMeta == [kind |-> "empty"]
\* DocType.REFERENCE, a member of a str enum
REFERENCE == [type |-> "DocType", value |-> "reference"]
SeedMeta == [kind |-> "doc", doc_type |-> REFERENCE, is_index |-> TRUE]
PageMeta == [kind |-> "doc", doc_type |-> REFERENCE, is_index |-> FALSE]
Metadata == {NoMeta, SeedMeta, PageMeta}

\* What the main task offers for the i-th page: the priorities in turn, a
\* HIGH URL being a seed of scrape_current_docs and the others carrying no
\* metadata, as in the tests.
SeedPriority(i) == i % 4
SeedMetadata(i) == IF SeedPriority(i) = HIGH THEN SeedMeta ELSE NoMeta

PageIndex(raw) == CHOOSE i \in 1..Len(Segments) : raw.path[2] = Segments[i]

QueueItem(url, priority, metadata, retry_count) ==
    [url |-> url, priority |-> priority, metadata |-> metadata,
     retry_count |-> retry_count]

NoItem == [url |-> <<>>, priority |-> NORMAL, metadata |-> NoMeta,
           retry_count |-> 0]

(* ------------------------------------------------------------ heap order *)
\* QueueItem.__lt__
QueueItemLt(self, other) == self.priority < other.priority

\* Python's comparison of the heap entries (item.priority.value, item): the
\* first differing component decides, and the dataclass __eq__ of the items
\* is the equality of their fields.
EntryLt(a, b) ==
    IF a[1] # b[1] THEN a[1] < b[1]
    ELSE IF a[2] = b[2] THEN FALSE
    ELSE QueueItemLt(a[2], b[2])

\* variant: the entries are keyed by the priority counted from LOW
EntryReversed(item) == <<LOW - item.priority, item>>

Entry(item) == <<item.priority, item>>

\* heapq._siftdown, positions counted from 0 as in heapq
RECURSIVE _siftdown(_, _, _, _)
_siftdown(h, startpos, pos, newitem) ==
    LET parentpos == (pos - 1) \div 2
    IN IF pos > startpos /\ EntryLt(newitem, h[parentpos + 1])
          THEN _siftdown([h EXCEPT ![pos + 1] = h[parentpos + 1]],
                         startpos, parentpos, newitem)
          ELSE [h EXCEPT ![pos + 1] = newitem]

\* heapq._siftup: move the smaller child up until a leaf is reached, then
\* sift the displaced item down from there.
RECURSIVE _siftup_loop(_, _, _, _)
_siftup_loop(h, startpos, pos, newitem) ==
    LET endpos == Len(h)
        leftpos == 2 * pos + 1
        rightpos == leftpos + 1
        childpos == IF rightpos < endpos
                       /\ ~EntryLt(h[leftpos + 1], h[rightpos + 1])
                    THEN rightpos ELSE leftpos
    IN IF leftpos < endpos
          THEN _siftup_loop([h EXCEPT ![pos + 1] = h[childpos + 1]],
                            startpos, childpos, newitem)
          ELSE _siftdown(h, startpos, pos, newitem)

_siftup(h, pos) == _siftup_loop(h, pos, pos, h[pos + 1])

heappush(h, e) == _siftdown(Append(h, e), 0, Len(h), e)

\* heapq.heappop: the heap that remains; the item returned is h[1]
heappop(h) ==
    LET lastelt == h[Len(h)]
        rest == SubSeq(h, 1, Len(h) - 1)
    IN IF rest # <<>> THEN _siftup([rest EXCEPT ![1] = lastelt], 0) ELSE rest

(* ----------------------------------------------------------------- state *)
VARIABLES
    max_workers, max_queue_size, max_retries,  \* URLQueue.__init__ arguments
    pages,         \* how many distinct pages the crawl can come across
    heap,          \* queue._queue, the heapq list of (priority.value, item)
    unfinished,    \* queue._unfinished_tasks
    seen_urls, processing, processed,
    failed,        \* URL -> error message
    stats,
    running,
    wpc,           \* where each worker task is suspended
    witem,         \* the item a worker holds
    wput,          \* the item a processor's add_url is waiting to put
    cancelled,     \* workers on which Task.cancel() was called, not yet run
    mpc,           \* where the main task is suspended
    mput,          \* the item the main task's add_url is waiting to put
    on_complete_calls,
    file,          \* the state file written by save_state
    fresh,         \* the URLQueue that load_state filled from the file
    saves,         \* history: number of save_state calls
    snap,          \* history: the queue as it was when save_state was called
    resumed,       \* the engine was restarted on the checkpoint
    stop_requested,  \* history: stop() was called
    callback_errors, \* history: how many times on_success raised
    fifo,          \* history: URLs of the pending items in the order of put
    hist,          \* history: per URL counters of what happened to it
    burst, tokens, last_update,    \* RateLimiter
    resolution,    \* how many ticks of the clock make 1/rate seconds
    lock,          \* the tasks holding RateLimiter.lock: none or one
    now,           \* time.monotonic(), in ticks of 1/rate seconds
    apc,           \* where each task calling acquire is suspended
    wake,          \* when the asyncio.sleep of a task in acquire is over
    grants,        \* history: the times at which acquire returned
    retry_attempts, session, cstats,    \* AsyncHTTPClient
    fpc,           \* where the task calling fetch is suspended
    attempt,       \* fetch's local variable
    result,        \* what the last fetch returned
    calls,         \* history: number of fetch calls
    answered,      \* history: responses received, by class of status
    fhist,         \* history: counters of the current fetch call
    save_checkpoint,  \* the engine's constructor argument
    shutdown_event, force_shutdown,    \* GracefulShutdown
    spc,           \* where the monitor_shutdown task is
    mcancel,       \* Task.cancel() was called on the main task, not yet run
    exit_status,   \* the status the process exited with, once it has
    events,        \* history: what the shutdown has done, in order
    clean,         \* the engine's constructor argument
    checkpoint_file,  \* what is on the disk at self.checkpoint_file
    end_time,      \* self.end_time is set
    created,       \* history: this run has written the checkpoint file
    stops,         \* history: number of stop() calls
    fetched_nil,   \* history: the URLs for which the fetcher returned nil
    templates,     \* self.templates: DocType -> template
    static_cache,  \* self.static_cache: resource URL -> local path
    ppc,           \* where each worker is in process_doc_url
    dtask,         \* where each download_resource task of a worker is
    pages_begun,   \* history: number of pages the workers have begun
    template_writes,  \* history: per DocType, how often its slot was written
    pages_of,      \* history: per DocType, the pages of it that were processed
    fetches,       \* history: per resource URL, the fetch_bytes calls
    cache_writes,  \* history: per resource URL, the writes of its cache slot
    service,       \* the service that runs the job of the task id
    jpc,           \* where the job is in its service
    found,         \* len(pages) of _discover_pages, len(routes) of
                   \* _discover_routes_intelligently
    scraped,       \* the pages the scraping loop has been through
    task,          \* active_tasks[task_id]
    delivered,     \* history: the last updates passed to the progress callback
    last_progress, \* history: the last progress value passed to the callback
    since_error,   \* history: the stages emitted from the first error event on
    urls,          \* the paths of the URLs given to _extract_url_pattern
    patterns,      \* what _extract_url_pattern returned for them
    repatterns,    \* what it returned for what it had returned
    to_visit,      \* _discover_routes_intelligently: the URLs to visit
    visited,       \* the URLs it has taken from to_visit
    seen_patterns, \* the patterns of the routes it has recorded
    fetched,       \* history: the URLs it has requested from the site
    given_url,     \* the URL given to _normalize_url
    normalized,    \* what _normalize_url returned for it
    renormalized   \* what it returned for what it had returned

cfgvars == <<max_workers, max_queue_size, max_retries, pages>>
setvars == <<seen_urls, processing, processed, failed>>
stopvars == <<stop_requested, stops>>
ckvars == <<file, fresh, saves, snap, resumed>>
limitervars == <<burst, resolution, tokens, last_update, lock, now, apc, wake,
                 grants>>
clientvars == <<retry_attempts, session, cstats, fpc, attempt, result, calls,
                answered, fhist>>
httpvars == <<limitervars, clientvars>>
queuevars == <<cfgvars, heap, unfinished, setvars, stats, running, wpc, witem,
               wput, cancelled, mpc, mput, on_complete_calls, ckvars,
               stopvars, callback_errors, fifo, hist>>
runvars == <<clean, checkpoint_file, end_time, created>>
enginevars == <<save_checkpoint, shutdown_event, force_shutdown, spc, mcancel,
                exit_status, events, runvars>>
pagevars == <<templates, static_cache, ppc, dtask, pages_begun,
              template_writes, pages_of, fetches, cache_writes>>
crawlvars == <<fetched_nil, pagevars>>
jobvars == <<service, jpc, found, scraped, task, delivered, last_progress,
             since_error>>
routevars == <<to_visit, visited, seen_patterns, fetched>>
normvars == <<given_url, normalized, renormalized>>
patternvars == <<urls, patterns, repatterns, routevars, normvars>>
extravars == <<enginevars, crawlvars, jobvars, patternvars>>
vars == <<queuevars, httpvars, extravars>>

Workers == 1..FixtureWorkers

None == [kind |-> "none"]

NoHist == [enqueued |-> 0, invoked |-> 0, returned |-> 0, retried |-> 0,
           failures |-> 0, on_failure |-> 0]

Bump(h, u, f) == [h EXCEPT ![u][f] = @ + 1]

NoFailures == [u \in {} |-> ""]

\* The tasks that call RateLimiter.acquire: MaxCallers tasks of their own and
\* the task that calls fetch.
Callers == 1..MaxCallers
Fetcher == MaxCallers + 1

\* The clock counts ticks, resolution of them in 1/rate seconds, and the
\* tokens are counted in the same unit, resolution to a token: one unit of
\* tokens per tick
rate == 1

NoCounts == [requests |-> 0, retryable |-> 0, throttled |-> 0, rejected |-> 0,
             sleeps |-> 0, failed_before |-> 0]

\* RateLimiter.__init__ and AsyncHTTPClient.__init__
InitHTTPAt(bursts, attempts, resolutions) ==
    /\ burst \in bursts
    /\ resolution \in resolutions
    /\ tokens = burst * resolution
    /\ last_update = 0
    /\ lock = {}
    /\ now = 0
    /\ apc = [c \in Callers \cup {Fetcher} |-> "idle"]
    /\ wake = [c \in Callers \cup {Fetcher} |-> 0]
    /\ grants = <<>>
    /\ retry_attempts \in attempts
    /\ session = FALSE
    /\ cstats = [total_requests |-> 0, successful_requests |-> 0,
                 failed_requests |-> 0]
    /\ fpc = "idle"
    /\ attempt = 0
    /\ result = "none"
    /\ calls = 0
    /\ answered = [ok |-> 0, not_ok |-> 0]
    /\ fhist = NoCounts

\* the same, the clock counting ticks of 1/rate seconds
InitHTTP(bursts, attempts) == InitHTTPAt(bursts, attempts, {1})

\* DocType.API and DocType.GUIDE
API == [type |-> "DocType", value |-> "api"]
GUIDE == [type |-> "DocType", value |-> "guide"]
DocType == {REFERENCE, API, GUIDE}

\* The static resources of the site: a stylesheet and an image, which pages
\* list and which the stylesheet may refer to with url(...)
Stylesheet == "https://docs.spring.io/css/site.css"
Image == "https://docs.spring.io/img/logo.png"
Resources == {Stylesheet, Image}

\* The download_resource tasks a worker can have: one per resource listed
\* on its page, and one for the image the stylesheet refers to
Slots == {"page_css", "page_img", "css_img"}
ResourceOf(slot) == IF slot = "page_css" THEN Stylesheet ELSE Image
NoTasks == [slot \in Slots |-> "none"]

\* the engine's constructor: GracefulShutdown.__init__, save_checkpoint, the
\* empty static cache and templates; no task exists yet
NotExited == [kind |-> "running"]

\* a checkpoint file that save_checkpoint_data has written in full
Written == [kind |-> "checkpoint"]

\* the engine's constructor and the output directory it finds: clean, and
\* what an earlier run has left at .scraper_checkpoint.json
InitRun(cleaning, left) ==
    /\ clean \in cleaning
    /\ checkpoint_file \in left
    /\ end_time = FALSE
    /\ created = FALSE

InitScraperIn(checkpointing, cleaning, left) ==
    /\ InitRun(cleaning, left)
    /\ save_checkpoint \in checkpointing
    /\ shutdown_event = FALSE
    /\ force_shutdown = FALSE
    /\ spc = "none"
    /\ mcancel = FALSE
    /\ exit_status = NotExited
    /\ events = <<>>
    /\ fetched_nil = {}
    /\ templates = {}
    /\ static_cache = [r \in {} |-> ""]
    /\ ppc = [w \in Workers |-> "idle"]
    /\ dtask = [w \in Workers |-> NoTasks]
    /\ pages_begun = 0
    /\ template_writes = [k \in DocType |-> 0]
    /\ pages_of = [k \in DocType |-> 0]
    /\ fetches = [r \in Resources |-> 0]
    /\ cache_writes = [r \in Resources |-> 0]

\* the engine constructed with clean = False in an output directory that
\* holds no checkpoint
InitScraper(checkpointing) == InitScraperIn(checkpointing, {FALSE}, {None})

\* The services of the API server that report progress: ScraperService
\* (mode 'basic'), IntelligentScraperService (mode 'intelligent') and
\* TopicDiscoveryService; NoService when the server runs no job
NoService == "none"
Services == {"basic", "intelligent", "discovery"}

\* start_scraping: active_tasks[task_id] = {'status': 'queued', 'progress': 0,
\* ...}; discover_topics keeps no record of the task
NoUpdates == [stage |-> "none"]
InitJob(services) ==
    /\ service \in services
    /\ jpc = IF service = NoService THEN "none" ELSE "queued"
    /\ found = 0
    /\ scraped = 0
    /\ task = IF service \in {"basic", "intelligent"}
                THEN [stage |-> "queued", progress |-> 0]
                ELSE NoUpdates
    /\ delivered = NoUpdates
    /\ last_progress = 0
    /\ since_error = <<>>

\* no URL has been given to _extract_url_pattern, no route discovered
InitUrlPattern(pairs) ==
    /\ urls \in pairs
    /\ patterns = <<>>
    /\ repatterns = <<>>
    /\ to_visit = {}
    /\ visited = {}
    /\ seen_patterns = {}
    /\ fetched = {}

\* no URL has been given to _normalize_url
NoUrl == <<>>
InitNormalize(inputs) ==
    /\ given_url \in inputs
    /\ normalized = <<>>
    /\ renormalized = <<>>

\* no URL has been given to _extract_url_pattern
InitPattern(pairs) ==
    /\ InitNormalize({NoUrl})
    /\ InitUrlPattern(pairs)

InitEngine(checkpointing) ==
    /\ InitScraper(checkpointing)
    /\ InitJob({NoService})
    /\ InitPattern({<<>>})

\* URLQueue.__init__ with its arguments drawn from the given sets
QueueInit(workers, sizes, retries, npages) ==
    /\ max_workers \in workers
    /\ max_queue_size \in sizes
    /\ max_retries \in retries
    /\ pages \in npages
    /\ heap = <<>>
    /\ unfinished = 0
    /\ seen_urls = {}
    /\ processing = {}
    /\ processed = {}
    /\ failed = NoFailures
    /\ stats = [total_queued |-> 0, total_processed |-> 0,
                total_failed |-> 0, total_retried |-> 0]
    /\ running = FALSE
    /\ wpc = [w \in Workers |-> "none"]
    /\ witem = [w \in Workers |-> NoItem]
    /\ wput = [w \in Workers |-> NoItem]
    /\ cancelled = {}
    /\ mpc = "ready"
    /\ mput = NoItem
    /\ on_complete_calls = 0
    /\ file = None
    /\ fresh = None
    /\ saves = 0
    /\ snap = None
    /\ resumed = FALSE
    /\ stop_requested = FALSE
    /\ stops = 0
    /\ callback_errors = 0
    /\ fifo = <<>>
    /\ hist = [u \in Urls |-> NoHist]

\* the queue with the given arguments, next to an HTTP client that is not
\* used
InitWith(workers, sizes, retries, npages) ==
    /\ QueueInit(workers, sizes, retries, npages)
    /\ InitHTTP({MaxBurst}, {MaxAttempts})
    /\ InitEngine({TRUE})

Init == InitWith({FixtureWorkers}, {MaxQueueSize}, {MaxRetries}, {MaxUrls})

(* ------------------------------------------------- asyncio.PriorityQueue *)
\* Queue.full()
full == Len(heap) >= max_queue_size

PendingItems(h) == { h[i][2] : i \in 1..Len(h) }
Pending == { i.url : i \in PendingItems(heap) }

RemoveUrl(s, u) == SelectSeq(s, LAMBDA x : x # u)

\* history: the place of a pending URL in the order of put
Position(s, u) == CHOOSE k \in 1..Len(s) : s[k] = u

\* Queue.put_nowait on the heap (_unfinished_tasks is counted by the caller)
put_nowait(item) ==
    /\ heap' = heappush(heap, Entry(item))
    /\ fifo' = Append(fifo, item.url)

\* Queue.task_done wakes the task waiting in join() when the count reaches 0;
\* the woken task returns from join() whatever happens before it runs.
JoinWake(count) == IF mpc = "joining" /\ count = 0 THEN "join_woken" ELSE mpc

(* --------------------------------------------------------------- add_url *)
\* add_url called by the main task. queue.put() suspends while the queue is
\* full and never raises QueueFull, so the except branch is not reachable.
add_url(raw, priority, metadata) ==
    LET normalized_url == _normalize_url(raw)
        item == QueueItem(normalized_url, priority, metadata, 0)
    IN /\ mpc = "ready"
       /\ IF normalized_url \in seen_urls
             THEN UNCHANGED <<seen_urls, heap, fifo, unfinished, stats, hist,
                              mpc, mput>>
             ELSE /\ seen_urls' = seen_urls \cup {normalized_url}
                  /\ IF full
                        THEN /\ mpc' = "add_put"
                             /\ mput' = item
                             /\ UNCHANGED <<heap, fifo, unfinished, stats, hist>>
                        ELSE /\ put_nowait(item)
                             /\ unfinished' = unfinished + 1
                             /\ stats' = [stats EXCEPT !.total_queued = @ + 1]
                             /\ hist' = Bump(hist, normalized_url, "enqueued")
                             /\ UNCHANGED <<mpc, mput>>
       /\ UNCHANGED <<extravars, httpvars, cfgvars, processing, processed, failed, running, wpc,
                      witem, wput, cancelled, on_complete_calls, ckvars,
                      stopvars, callback_errors>>

\* the main task's put resumes once the queue has room
add_url_resume ==
    /\ mpc = "add_put"
    /\ ~full
    /\ put_nowait(mput)
    /\ unfinished' = unfinished + 1
    /\ stats' = [stats EXCEPT !.total_queued = @ + 1]
    /\ hist' = Bump(hist, mput.url, "enqueued")
    /\ mpc' = "ready"
    /\ mput' = NoItem
    /\ UNCHANGED <<extravars, httpvars, cfgvars, setvars, running, wpc, witem, wput, cancelled,
                   on_complete_calls, ckvars, stopvars, callback_errors>>

(* ----------------------------------------------------------------- start *)
\* start(processor), which the crawl and the tests call once per queue
start ==
    /\ mpc = "ready"
    /\ ~running
    /\ ~stop_requested
    /\ running' = TRUE
    /\ wpc' = [w \in Workers |-> IF w <= max_workers THEN "get" ELSE "none"]
    /\ UNCHANGED <<extravars, httpvars, cfgvars, heap, unfinished, setvars, stats, witem, wput,
                   cancelled, mpc, mput, on_complete_calls, ckvars,
                   stopvars, callback_errors, fifo, hist>>

(* ---------------------------------------------------------------- worker *)
ProcessorError == "processor failed"
CallbackError == "callback failed"

SetFailed(f, u, msg) ==
    [x \in (DOMAIN f) \cup {u} |-> IF x = u THEN msg ELSE f[x]]

\* while self.running: queue.get() returned an item; it is marked as
\* processing and the processor is called.
worker_get(w) ==
    LET item == heap[1][2]
    IN /\ wpc[w] = "get"
       /\ w \notin cancelled
       /\ running
       /\ heap # <<>>
       /\ heap' = heappop(heap)
       /\ fifo' = RemoveUrl(fifo, item.url)
       /\ processing' = processing \cup {item.url}
       /\ witem' = [witem EXCEPT ![w] = item]
       /\ wpc' = [wpc EXCEPT ![w] = "processor"]
       /\ hist' = Bump(hist, item.url, "invoked")
       /\ UNCHANGED <<extravars, httpvars, cfgvars, unfinished, seen_urls, processed, failed, stats,
                      running, wput, cancelled, mpc, mput, on_complete_calls,
                      ckvars, stopvars, callback_errors>>

\* the processor calls add_url (queue_reference_pages): NORMAL priority,
\* is_index = False
processor_add_url(w, raw) ==
    LET normalized_url == _normalize_url(raw)
        item == QueueItem(normalized_url, NORMAL, PageMeta, 0)
    IN /\ wpc[w] = "processor"
       /\ w \notin cancelled
       /\ normalized_url \notin seen_urls
       /\ seen_urls' = seen_urls \cup {normalized_url}
       /\ IF full
             THEN /\ wpc' = [wpc EXCEPT ![w] = "processor_put"]
                  /\ wput' = [wput EXCEPT ![w] = item]
                  /\ UNCHANGED <<heap, fifo, unfinished, stats, hist>>
             ELSE /\ put_nowait(item)
                  /\ unfinished' = unfinished + 1
                  /\ stats' = [stats EXCEPT !.total_queued = @ + 1]
                  /\ hist' = Bump(hist, normalized_url, "enqueued")
                  /\ UNCHANGED <<wpc, wput>>
       /\ UNCHANGED <<extravars, httpvars, cfgvars, processing, processed, failed, running, witem,
                      cancelled, mpc, mput, on_complete_calls, ckvars,
                      stopvars, callback_errors>>

\* the processor's put resumes once the queue has room
processor_add_url_resume(w) ==
    /\ wpc[w] = "processor_put"
    /\ w \notin cancelled
    /\ ~full
    /\ put_nowait(wput[w])
    /\ unfinished' = unfinished + 1
    /\ stats' = [stats EXCEPT !.total_queued = @ + 1]
    /\ hist' = Bump(hist, wput[w].url, "enqueued")
    /\ wpc' = [wpc EXCEPT ![w] = "processor"]
    /\ wput' = [wput EXCEPT ![w] = NoItem]
    /\ UNCHANGED <<extravars, httpvars, cfgvars, setvars, running, witem, cancelled, mpc, mput,
                   on_complete_calls, ckvars, stopvars, callback_errors>>

\* the processor returned: the URL is processed and on_success is awaited
processor_returns(w) ==
    LET url == witem[w].url
    IN /\ wpc[w] = "processor"
       /\ w \notin cancelled
       /\ processed' = processed \cup {url}
       /\ stats' = [stats EXCEPT !.total_processed = @ + 1]
       /\ wpc' = [wpc EXCEPT ![w] = "on_success"]
       /\ hist' = Bump(hist, url, "returned")
       /\ UNCHANGED <<cfgvars, heap, fifo, unfinished, seen_urls, processing,
                      failed, running, witem, wput, cancelled, mpc, mput,
                      on_complete_calls, ckvars, stopvars,
                      callback_errors>>

processor_return(w) ==
    /\ processor_returns(w)
    /\ UNCHANGED <<extravars, httpvars>>

\* variant: the finally arm marks the task done and leaves the URL in the
\* processing set
finally_keeping(w) ==
    /\ processing' = processing
    /\ unfinished' = unfinished - 1
    /\ mpc' = JoinWake(unfinished - 1)
    /\ witem' = [witem EXCEPT ![w] = NoItem]

\* finally: processing.discard(item.url); queue.task_done()
finally(w) ==
    /\ processing' = processing \ {witem[w].url}
    /\ unfinished' = unfinished - 1
    /\ mpc' = JoinWake(unfinished - 1)
    /\ witem' = [witem EXCEPT ![w] = NoItem]

\* variant: one more retry is granted
should_retry_once_more(item) == item.retry_count <= max_retries

\* if item.retry_count < self.max_retries
should_retry(item) == item.retry_count < max_retries

\* variant: the retried item keeps its priority
retried_in_place(item) == [item EXCEPT !.retry_count = @ + 1]

\* item.retry_count += 1; item.priority = Priority.LOW: the same object, its
\* other fields untouched
retried(item) == [item EXCEPT !.retry_count = @ + 1, !.priority = LOW]

\* except Exception around the processor and on_success: retry at LOW while
\* retry_count < max_retries, else record the failure and await on_failure.
\* When the retried item is put at once the finally arm follows in the same
\* step: put and task_done leave _unfinished_tasks as it was.
on_exception(w, error_msg) ==
    LET item == witem[w]
        retry == retried(item)
    IN IF should_retry(item)
          THEN /\ stats' = [stats EXCEPT !.total_retried = @ + 1]
               /\ hist' = Bump(hist, item.url, "retried")
               /\ IF full
                     THEN /\ wpc' = [wpc EXCEPT ![w] = "retry_put"]
                          /\ witem' = [witem EXCEPT ![w] = retry]
                          /\ UNCHANGED <<heap, fifo, processing>>
                     ELSE /\ put_nowait(retry)
                          /\ processing' = processing \ {item.url}
                          /\ witem' = [witem EXCEPT ![w] = NoItem]
                          /\ wpc' = [wpc EXCEPT ![w] = "get"]
               /\ UNCHANGED <<failed, unfinished, mpc>>
          ELSE /\ failed' = SetFailed(failed, item.url, error_msg)
               /\ stats' = [stats EXCEPT !.total_failed = @ + 1]
               /\ hist' = Bump(Bump(hist, item.url, "failures"), item.url,
                               "on_failure")
               /\ wpc' = [wpc EXCEPT ![w] = "on_failure"]
               /\ UNCHANGED <<heap, fifo, unfinished, processing, witem, mpc>>

\* variant: a URL that failed for good is forgotten
processor_raise_forgetting(w) ==
    /\ wpc[w] = "processor"
    /\ w \notin cancelled
    /\ on_exception(w, ProcessorError)
    /\ seen_urls' = IF should_retry(witem[w]) THEN seen_urls
                    ELSE seen_urls \ {witem[w].url}
    /\ UNCHANGED <<extravars, httpvars, cfgvars, processed, running, wput, cancelled, mput,
                   on_complete_calls, ckvars, stopvars,
                   callback_errors>>

\* the processor raised
processor_raises(w, error_msg) ==
    /\ wpc[w] = "processor"
    /\ w \notin cancelled
    /\ on_exception(w, error_msg)
    /\ UNCHANGED <<cfgvars, seen_urls, processed, running, wput, cancelled,
                   mput, on_complete_calls, ckvars, stopvars,
                   callback_errors>>

processor_raise(w) ==
    /\ processor_raises(w, ProcessorError)
    /\ UNCHANGED <<extravars, httpvars>>

\* on_success returned
on_success_return(w) ==
    /\ wpc[w] = "on_success"
    /\ w \notin cancelled
    /\ finally(w)
    /\ wpc' = [wpc EXCEPT ![w] = "get"]
    /\ UNCHANGED <<extravars, httpvars, cfgvars, heap, fifo, seen_urls, processed, failed, stats,
                   running, wput, cancelled, mput, on_complete_calls, ckvars,
                   stopvars, callback_errors, hist>>

\* on_success raised: the same except arm handles it
on_success_raise(w) ==
    /\ wpc[w] = "on_success"
    /\ w \notin cancelled
    /\ callback_errors < MaxCallbackErrors
    /\ callback_errors' = callback_errors + 1
    /\ on_exception(w, CallbackError)
    /\ UNCHANGED <<extravars, httpvars, cfgvars, seen_urls, processed, running, wput, cancelled,
                   mput, on_complete_calls, ckvars, stopvars>>

\* on_failure returned, or raised into the outer except Exception, which logs
\* and goes on with the loop: both run the finally arm and nothing else.
on_failure_done(w) ==
    /\ wpc[w] = "on_failure"
    /\ w \notin cancelled
    /\ finally(w)
    /\ wpc' = [wpc EXCEPT ![w] = "get"]
    /\ UNCHANGED <<extravars, httpvars, cfgvars, heap, fifo, seen_urls, processed, failed, stats,
                   running, wput, cancelled, mput, on_complete_calls, ckvars,
                   stopvars, callback_errors, hist>>

\* the put of a retried item resumes once the queue has room; finally follows
retry_put_resume(w) ==
    /\ wpc[w] = "retry_put"
    /\ w \notin cancelled
    /\ ~full
    /\ put_nowait(witem[w])
    /\ processing' = processing \ {witem[w].url}
    /\ witem' = [witem EXCEPT ![w] = NoItem]
    /\ wpc' = [wpc EXCEPT ![w] = "get"]
    /\ UNCHANGED <<extravars, httpvars, cfgvars, unfinished, seen_urls, processed, failed, stats,
                   running, wput, cancelled, mpc, mput, on_complete_calls,
                   ckvars, stopvars, callback_errors, hist>>

\* CancelledError is raised where the worker is suspended. It is not an
\* Exception: only the finally arm runs when an item is held, then the outer
\* except CancelledError leaves the loop.
worker_cancelled(w) ==
    /\ w \in cancelled
    /\ cancelled' = cancelled \ {w}
    /\ wpc' = [wpc EXCEPT ![w] = "none"]
    /\ wput' = [wput EXCEPT ![w] = NoItem]
    /\ IF wpc[w] = "get"
          THEN UNCHANGED <<processing, unfinished, mpc, witem>>
          ELSE finally(w)
    /\ UNCHANGED <<extravars, httpvars, cfgvars, heap, fifo, seen_urls, processed, failed, stats,
                   running, mput, on_complete_calls, ckvars, stopvars,
                   callback_errors, hist>>

(* ------------------------------------------------- wait_complete and stop *)
\* wait_complete: queue.join() returns at once when nothing is unfinished
wait_complete ==
    /\ mpc = "ready"
    /\ IF unfinished > 0
          THEN mpc' = "joining" /\ UNCHANGED on_complete_calls
          ELSE mpc' = "done" /\ on_complete_calls' = on_complete_calls + 1
    /\ UNCHANGED <<extravars, httpvars, cfgvars, heap, fifo, unfinished, setvars, stats, running,
                   wpc, witem, wput, cancelled, mput, ckvars, stopvars,
                   callback_errors, hist>>

\* join() returned; on_complete(get_stats()) is awaited
wait_complete_return ==
    /\ mpc = "join_woken"
    /\ mpc' = "done"
    /\ on_complete_calls' = on_complete_calls + 1
    /\ UNCHANGED <<extravars, httpvars, cfgvars, heap, fifo, unfinished, setvars, stats, running,
                   wpc, witem, wput, cancelled, mput, ckvars, stopvars,
                   callback_errors, hist>>

\* variant: Task.cancel() takes effect on a worker task that is done too
workers_to_cancel_done_too == { w \in Workers : w <= max_workers }

\* for worker in self.workers: worker.cancel() -- cancel() does nothing on a
\* task that is done; a queue that was never started has no worker
workers_to_cancel == { w \in Workers : wpc[w] # "none" }

\* stop(), called by any task, on a queue that runs or not: running = False
\* and every worker task that is not done is cancelled; a worker that is done
\* is not touched. The gather that follows returns when all of them are done.
stop ==
    /\ stops < MaxStops
    /\ stops' = stops + 1
    /\ running' = FALSE
    /\ cancelled' = workers_to_cancel
    /\ stop_requested' = TRUE
    /\ UNCHANGED <<extravars, httpvars, cfgvars, heap, fifo, unfinished, setvars, stats, wpc, witem,
                   wput, mpc, mput, on_complete_calls, ckvars, callback_errors,
                   hist>>

(* ------------------------------------------------ save_state, load_state *)
\* json.dump of a metadata dict: DocType is a str enum and is written as its
\* value, True and False as true and false
json_dump_metadata(m) ==
    IF m.kind = "empty" THEN [object |-> "{}"]
    ELSE [object |-> "{doc_type, is_index}",
          doc_type |-> m.doc_type.value,
          is_index |-> IF m.is_index THEN "true" ELSE "false"]

\* json.load of what json_dump_metadata wrote
json_load_metadata(j) ==
    IF j.object = "{}" THEN [kind |-> "empty"]
    ELSE [kind |-> "doc", doc_type |-> [type |-> "str", value |-> j.doc_type],
          is_index |-> (j.is_index = "true")]

\* Python's == on metadata: a member of the str enum DocType equals, and
\* hashes as, its value; two items are equal when their keys are.
MetadataKey(m) ==
    IF m.kind = "empty" THEN m
    ELSE [m EXCEPT !.doc_type = [type |-> "str", value |-> @.value]]

ItemKey(item) == [item EXCEPT !.metadata = MetadataKey(@)]

\* variant: the entry does not carry the retries made so far
pending_entry_without_retries(item) ==
    [url |-> item.url, priority |-> PriorityName(item.priority),
     metadata |-> json_dump_metadata(item.metadata),
     retry_count |-> 0]

\* the entry of pending_items that save_state writes for an item
pending_entry(item) ==
    [url |-> item.url, priority |-> PriorityName(item.priority),
     metadata |-> json_dump_metadata(item.metadata),
     retry_count |-> item.retry_count]

\* the QueueItem that load_state builds from an entry
restored_item(item_data) ==
    QueueItem(item_data.url, PriorityByName(item_data.priority),
              json_load_metadata(item_data.metadata), item_data.retry_count)

\* list(a_set), written as a JSON array: the elements in some order
RECURSIVE list_of(_)
list_of(S) ==
    IF S = {} THEN <<>>
    ELSE LET x == CHOOSE x \in S : TRUE IN <<x>> \o list_of(S \ {x})

\* set(a_list), as load_state builds its sets from the JSON arrays
set_of(l) == { l[i] : i \in DOMAIN l }

\* while not queue.empty(): get_nowait() -- the items in the order they pop
RECURSIVE drain(_)
drain(h) == IF h = <<>> THEN <<>> ELSE <<h[1][2]>> \o drain(heappop(h))

\* for item in items: queue.put((item.priority.value, item))
RECURSIVE put_all(_, _)
put_all(h, items) ==
    IF items = <<>> THEN h
    ELSE put_all(heappush(h, Entry(items[1])), Tail(items))

\* the multiset of the items of a sequence, up to Python's ==
BagOf(seq) ==
    [x \in { ItemKey(seq[i]) : i \in DOMAIN seq } |->
        Cardinality({ i \in DOMAIN seq : ItemKey(seq[i]) = x })]

\* save_state(filepath), called by any task: the queue is drained with
\* get_nowait and every item is put back, which counts it as unfinished once
\* more; the state is then written to the file.
save_state_effects ==
    LET temp_items == drain(heap)
    IN /\ saves < MaxSaves
       /\ saves' = saves + 1
       /\ heap' = put_all(<<>>, temp_items)
       /\ fifo' = [i \in DOMAIN temp_items |-> temp_items[i].url]
       /\ unfinished' = unfinished + Len(temp_items)
       /\ file' = [seen_urls |-> list_of(seen_urls),
                   processed |-> list_of(processed),
                   failed |-> failed, stats |-> stats,
                   pending |-> [i \in DOMAIN temp_items |->
                                  pending_entry(temp_items[i])]]
       /\ snap' = [seen_urls |-> seen_urls, processed |-> processed,
                   failed |-> failed, pending |-> BagOf(temp_items),
                   processing |-> processing, hist |-> hist]
       /\ fresh' = None
       /\ UNCHANGED <<httpvars, resumed, cfgvars, setvars, stats, wpc, witem,
                      wput, mpc, mput, on_complete_calls, stopvars,
                      callback_errors, hist>>

save_state ==
    /\ save_state_effects
    /\ UNCHANGED <<extravars, running, cancelled>>

\* what open(filepath, 'w') and an unfinished json.dump leave on the disk
Torn == [kind |-> "torn"]

\* json.load of such a file raises
JSONDecodeError == [kind |-> "JSONDecodeError"]

\* save_state (or save_checkpoint_data, which writes its own file in the same
\* way right after) interrupted by a crash of the process while json.dump
\* is writing: open(filepath, 'w') has truncated the file and only a part of
\* the new content is on the disk. The queue had been drained and refilled
\* before.
save_state_crash ==
    LET temp_items == drain(heap)
    IN /\ saves < MaxSaves
       /\ saves' = saves + 1
       /\ heap' = put_all(<<>>, temp_items)
       /\ fifo' = [i \in DOMAIN temp_items |-> temp_items[i].url]
       /\ unfinished' = unfinished + Len(temp_items)
       /\ file' = Torn
       /\ UNCHANGED <<extravars, httpvars, fresh, snap, resumed, cfgvars, setvars, stats, running,
                      wpc, witem, wput, cancelled, mpc, mput,
                      on_complete_calls, stopvars, callback_errors,
                      hist>>

\* load_state (or resume_from_checkpoint) on a torn file: json.load raises
\* and nothing is restored
load_state_raise ==
    /\ file = Torn
    /\ fresh = None
    /\ fresh' = JSONDecodeError
    /\ UNCHANGED <<extravars, httpvars, cfgvars, heap, fifo, unfinished, setvars, stats, running,
                   wpc, witem, wput, cancelled, mpc, mput, on_complete_calls,
                   file, saves, snap, resumed, stopvars,
                   callback_errors, hist>>

\* load_state(filepath) on a newly constructed URLQueue
load_state ==
    /\ file # None
    /\ file # Torn
    /\ fresh = None
    /\ fresh' = [seen_urls |-> set_of(file.seen_urls),
                 processed |-> set_of(file.processed),
                 failed |-> file.failed, stats |-> file.stats,
                 heap |-> put_all(<<>>, [i \in DOMAIN file.pending |->
                                           restored_item(file.pending[i])]),
                 unfinished |-> Len(file.pending)]
    /\ UNCHANGED <<extravars, httpvars, cfgvars, heap, fifo, unfinished, setvars, stats, running,
                   wpc, witem, wput, cancelled, mpc, mput, on_complete_calls,
                   file, saves, snap, resumed, stopvars,
                   callback_errors, hist>>

\* The engine is started again and finds the checkpoint: scrape_all calls
\* resume_from_checkpoint, whose load_state filled the new URLQueue, and
\* scrape_current_docs goes on with that queue; nothing of the old process
\* is left but the files.
resume ==
    /\ fresh # None
    /\ fresh # JSONDecodeError
    /\ ~resumed
    /\ resumed' = TRUE
    /\ heap' = fresh.heap
    /\ fifo' = [i \in DOMAIN file.pending |-> file.pending[i].url]
    /\ unfinished' = fresh.unfinished
    /\ seen_urls' = fresh.seen_urls
    /\ processed' = fresh.processed
    /\ failed' = fresh.failed
    /\ stats' = fresh.stats
    /\ processing' = {}
    /\ running' = FALSE
    /\ wpc' = [w \in Workers |-> "none"]
    /\ witem' = [w \in Workers |-> NoItem]
    /\ wput' = [w \in Workers |-> NoItem]
    /\ cancelled' = {}
    /\ mpc' = "ready"
    /\ mput' = NoItem
    /\ on_complete_calls' = 0
    /\ stop_requested' = FALSE
    /\ stops' = 0
    /\ UNCHANGED <<extravars, httpvars, cfgvars, file, fresh, saves, snap, callback_errors, hist>>

(* ----------------------------------------------------------- RateLimiter *)
\* The while loop of acquire from its head to the sleep or to the end of the
\* call, for the given tokens and last_update at the time t: the tokens and
\* last_update it leaves and how long it sleeps (0: acquire returns).
acquire_loop(tk, lu, t) ==
    IF tk <= 0
       THEN LET elapsed == t - lu
                refilled == tk + elapsed * rate
                capped == IF refilled < burst * resolution
                             THEN refilled ELSE burst * resolution
            IN IF capped <= 0
                  THEN [tokens |-> capped, last_update |-> t,
                        sleep_time |-> (resolution - capped) \div rate]
                  ELSE [tokens |-> capped - resolution, last_update |-> t,
                        sleep_time |-> 0]
       ELSE [tokens |-> tk - resolution, last_update |-> lu, sleep_time |-> 0]

\* the task c, holding the lock, runs the loop: it sleeps with the lock held
\* or takes its token, releases the lock and returns
acquire_run(c) ==
    LET r == acquire_loop(tokens, last_update, now)
    IN /\ tokens' = r.tokens
       /\ last_update' = r.last_update
       /\ IF r.sleep_time > 0
             THEN /\ lock' = {c}
                  /\ apc' = [apc EXCEPT ![c] = "sleep"]
                  /\ wake' = [wake EXCEPT ![c] = now + r.sleep_time]
                  /\ UNCHANGED grants
             ELSE /\ lock' = {}
                  /\ apc' = [apc EXCEPT ![c] = "idle"]
                  /\ wake' = [wake EXCEPT ![c] = 0]
                  /\ grants' = Append(grants, now)
       /\ UNCHANGED <<burst, resolution, now>>

\* acquire() is called: async with self.lock does not suspend when the lock
\* is free
acquire_enter(c) ==
    /\ apc[c] = "idle"
    /\ IF lock = {}
          THEN acquire_run(c)
          ELSE /\ apc' = [apc EXCEPT ![c] = "lock"]
               /\ UNCHANGED <<burst, resolution, tokens, last_update, lock, now, wake,
                              grants>>

\* a task waiting for the lock gets it
acquire_locked(c) ==
    /\ apc[c] = "lock"
    /\ lock = {}
    /\ acquire_run(c)

\* asyncio.sleep(sleep_time) is over: the loop goes round
acquire_wake(c) ==
    /\ apc[c] = "sleep"
    /\ now >= wake[c]
    /\ acquire_run(c)

\* a task of its own calls acquire, or goes on in it
acquire(c) ==
    /\ \/ Len(grants) + Cardinality({ d \in Callers : apc[d] # "idle" })
             < MaxAcquires
          /\ acquire_enter(c)
       \/ acquire_locked(c)
       \/ acquire_wake(c)
    /\ UNCHANGED <<extravars, queuevars, clientvars>>

\* time passes
Tick ==
    /\ now < MaxTime
    /\ now' = now + 1
    /\ UNCHANGED <<extravars, queuevars, clientvars, burst, resolution, tokens, last_update, lock,
                   apc, wake, grants>>

\* time passes for ever: once the clock shows MaxTime it is kept there and
\* the times the state holds are moved back by one tick instead, a time
\* that lies MaxTime or more in the past being kept at 0
earlier(t) == IF t > 0 THEN t - 1 ELSE 0
TimePasses ==
    /\ IF now < MaxTime
          THEN /\ now' = now + 1
               /\ UNCHANGED <<last_update, wake, grants>>
          ELSE /\ last_update' = earlier(last_update)
               /\ wake' = [c \in DOMAIN wake |-> earlier(wake[c])]
               /\ grants' = [i \in DOMAIN grants |-> earlier(grants[i])]
               /\ UNCHANGED now
    /\ UNCHANGED <<extravars, queuevars, clientvars, burst, resolution,
                   tokens, lock, apc>>

InitLimiter ==
    /\ QueueInit({FixtureWorkers}, {MaxQueueSize}, {MaxRetries}, {MaxUrls})
    /\ InitHTTP(1..MaxBurst, {MaxAttempts})
    /\ InitEngine({TRUE})

NextLimiter ==
    \/ \E c \in Callers : acquire(c)
    \/ Tick

SpecLimiter == InitLimiter /\ [][NextLimiter]_vars

(* The same limiter on a finer clock: acquire is also called between the   *)
(* instants at which a whole token has accrued.                            *)
InitTokens ==
    /\ QueueInit({FixtureWorkers}, {MaxQueueSize}, {MaxRetries}, {MaxUrls})
    /\ InitHTTPAt(1..MaxBurst, {MaxAttempts}, 1..MaxResolution)
    /\ InitEngine({TRUE})

SpecTokens == InitTokens /\ [][NextLimiter]_vars

(* The limiter of AsyncHTTPClient(rate_limit), whose burst is              *)
(* int(rate_limit * 2): 0 when rate_limit < 0.5. Time never stops, a task  *)
(* that can go on does, and the lock is given to each task that waits for  *)
(* it (asyncio.Lock wakes its waiters in turn).                            *)
InitLimiterLive ==
    /\ QueueInit({FixtureWorkers}, {MaxQueueSize}, {MaxRetries}, {MaxUrls})
    /\ InitHTTP(0..MaxBurst, {MaxAttempts})
    /\ InitEngine({TRUE})

NextLimiterLive ==
    \/ \E c \in Callers : acquire(c)
    \/ TimePasses

FairLimiter ==
    /\ WF_vars(TimePasses)
    /\ \A c \in Callers : SF_vars(acquire(c))

SpecLimiterLive == InitLimiterLive /\ [][NextLimiterLive]_vars /\ FairLimiter

(* ------------------------------------------------------- AsyncHTTPClient *)
\* Time is counted in seconds and the client is AsyncHTTPClient(rate_limit =
\* 1.0, retry_attempts = ...): its limiter is RateLimiter(1.0, burst = 2).
retry_delay == 1

\* the statuses a server answers with, and the Retry-After headers of a 429
Statuses == {200, 399, 400, 404, 429, 499, 500, 503}
RetryAfterHeaders == {"absent", "0", "1", "Wed, 21 Oct 2015 07:28:00 GMT"}
ValueError == -1

\* response.headers.get('Retry-After', '60')
retry_after(header) == IF header = "absent" THEN "60" ELSE header

\* int(retry_after): the seconds, or ValueError for a string that is not a
\* decimal number
int(s) ==
    CASE s = "0" -> 0
      [] s = "1" -> 1
      [] s = "60" -> 60
      [] OTHER -> ValueError

\* while attempt < self.retry_attempts, with <= in place of <
may_attempt_once_more(a) == a <= retry_attempts

\* while attempt < self.retry_attempts
may_attempt(a) == a < retry_attempts

\* the if/elif chain on response.status, a 4xx status taken for a server
\* error
branch_retrying_4xx(status) ==
    IF status < 400 THEN "return"
    ELSE IF status = 429 THEN "throttled"
    ELSE "retry"

\* the if/elif chain on response.status
branch(status) ==
    IF status < 400 THEN "return"
    ELSE IF status = 429 THEN "throttled"
    ELSE IF status >= 500 THEN "retry"
    ELSE "reject"

\* the 429 branch going round the loop without attempt += 1
after_429_same_attempt(a) == a

\* attempt += 1 of the 429 branch
after_429(a) == a + 1

\* history: the responses of the current fetch call, by class of status
received(status) ==
    IF status < 400 THEN fhist
    ELSE IF status = 429 THEN [fhist EXCEPT !.throttled = @ + 1]
    ELSE IF status >= 500 THEN [fhist EXCEPT !.retryable = @ + 1]
    ELSE [fhist EXCEPT !.rejected = @ + 1]

\* the top of the while loop with attempt = a, the statistics cs and the
\* history h: the limiter is asked for a token and, once it is granted, the
\* request is counted and sent; when no attempt is left the fetch fails
fetch_loop(a, cs, h) ==
    /\ attempt' = a
    /\ IF may_attempt(a)
          THEN /\ acquire_enter(Fetcher)
               /\ result' = "none"
               /\ IF apc'[Fetcher] = "idle"
                     THEN /\ cstats' = [cs EXCEPT !.total_requests = @ + 1]
                          /\ fhist' = [h EXCEPT !.requests = @ + 1]
                          /\ fpc' = "request"
                     ELSE /\ cstats' = cs
                          /\ fhist' = h
                          /\ fpc' = "acquire"
          ELSE /\ cstats' = [cs EXCEPT !.failed_requests = @ + 1]
               /\ fhist' = h
               /\ fpc' = "returned"
               /\ result' = "nil"
               /\ UNCHANGED limitervars

\* the fetch task sleeps for wait_time seconds at the place pc
fetch_sleep(pc, wait_time) ==
    /\ fpc' = pc
    /\ wake' = [wake EXCEPT ![Fetcher] = now + wait_time]
    /\ UNCHANGED <<burst, resolution, tokens, last_update, lock, now, apc, grants>>

\* the exponential backoff and attempt += 1 that follow a retryable failure
fetch_backoff(cs, h) ==
    IF attempt < retry_attempts - 1
       THEN /\ fetch_sleep("backoff", retry_delay * (2 ^ attempt))
            /\ cstats' = cs
            /\ fhist' = h
            /\ UNCHANGED <<attempt, result>>
       ELSE fetch_loop(attempt + 1, cs, h)

\* AsyncHTTPClient.start
client_start ==
    /\ ~session
    /\ session' = TRUE
    /\ UNCHANGED <<extravars, queuevars, limitervars, retry_attempts, cstats, fpc,
                   attempt, result, calls, answered, fhist>>

\* fetch is called on a client that was not started: RuntimeError
fetch_not_started ==
    /\ ~session
    /\ fpc \in {"idle", "returned"}
    /\ calls < MaxFetches
    /\ calls' = calls + 1
    /\ fpc' = "returned"
    /\ result' = "RuntimeError"
    /\ UNCHANGED <<extravars, queuevars, limitervars, retry_attempts, session, cstats,
                   attempt, answered, fhist>>

\* fetch is called
fetch_call ==
    /\ session
    /\ fpc \in {"idle", "returned"}
    /\ calls < MaxFetches
    /\ calls' = calls + 1
    /\ fetch_loop(0, cstats,
                  [NoCounts EXCEPT !.failed_before = cstats.failed_requests])
    /\ UNCHANGED <<extravars, queuevars, retry_attempts, session, answered>>

\* the limiter, after making the fetch task wait, grants the token
fetch_acquired ==
    /\ fpc = "acquire"
    /\ acquire_locked(Fetcher) \/ acquire_wake(Fetcher)
    /\ IF apc'[Fetcher] = "idle"
          THEN /\ cstats' = [cstats EXCEPT !.total_requests = @ + 1]
               /\ fhist' = [fhist EXCEPT !.requests = @ + 1]
               /\ fpc' = "request"
          ELSE UNCHANGED <<cstats, fhist, fpc>>
    /\ UNCHANGED <<extravars, queuevars, retry_attempts, session, attempt, result, calls,
                   answered>>

\* the request is answered with a status, and a 429 with a Retry-After header
fetch_response(status, header) ==
    /\ fpc = "request"
    /\ LET cs == [cstats EXCEPT !.successful_requests = @ + 1]
           wait_time == int(retry_after(header))
           h == received(status)
       IN /\ answered' = IF status < 400
                            THEN [answered EXCEPT !.ok = @ + 1]
                            ELSE [answered EXCEPT !.not_ok = @ + 1]
          /\ CASE branch(status) = "return" ->
                    /\ fpc' = "returned"
                    /\ result' = "response"
                    /\ cstats' = cs
                    /\ fhist' = h
                    /\ UNCHANGED <<limitervars, attempt>>
               [] branch(status) = "throttled" /\ wait_time = ValueError ->
                    /\ fpc' = "returned"
                    /\ result' = "ValueError"
                    /\ cstats' = [cs EXCEPT !.failed_requests = @ + 1]
                    /\ fhist' = h
                    /\ UNCHANGED <<limitervars, attempt>>
               [] branch(status) = "throttled" /\ wait_time # ValueError ->
                    /\ fetch_sleep("rate_limited", wait_time)
                    /\ cstats' = cs
                    /\ fhist' = [h EXCEPT !.sleeps = @ + 1]
                    /\ UNCHANGED <<attempt, result>>
               [] branch(status) = "retry" ->
                    fetch_backoff(cs, h)
               [] branch(status) = "reject" ->
                    /\ fpc' = "returned"
                    /\ result' = "nil"
                    /\ cstats' = [cs EXCEPT !.failed_requests = @ + 1]
                    /\ fhist' = h
                    /\ UNCHANGED <<limitervars, attempt>>
    /\ UNCHANGED <<extravars, queuevars, retry_attempts, session, calls>>

\* asyncio.sleep(wait_time) of the 429 branch is over: attempt += 1, continue
fetch_rate_limited_done ==
    /\ fpc = "rate_limited"
    /\ now >= wake[Fetcher]
    /\ fetch_loop(after_429(attempt), cstats, fhist)
    /\ UNCHANGED <<extravars, queuevars, retry_attempts, session, calls, answered>>

\* the request or the reading of the response raises
fetch_error(exception) ==
    /\ fpc = "request"
    /\ IF exception \in {"TimeoutError", "ClientError"}
          THEN fetch_backoff(cstats, [fhist EXCEPT !.retryable = @ + 1])
          ELSE /\ fpc' = "returned"
               /\ result' = exception
               /\ cstats' = [cstats EXCEPT !.failed_requests = @ + 1]
               /\ UNCHANGED <<limitervars, attempt, fhist>>
    /\ UNCHANGED <<extravars, queuevars, retry_attempts, session, calls, answered>>

\* asyncio.sleep of the backoff is over: attempt += 1 and the loop goes round
fetch_backoff_done ==
    /\ fpc = "backoff"
    /\ now >= wake[Fetcher]
    /\ fetch_loop(attempt + 1, cstats, fhist)
    /\ UNCHANGED <<extravars, queuevars, retry_attempts, session, calls, answered>>

InitFetch ==
    /\ QueueInit({FixtureWorkers}, {MaxQueueSize}, {MaxRetries}, {MaxUrls})
    /\ InitHTTP({2 * rate}, 1..MaxAttempts)
    /\ InitEngine({TRUE})

NextFetch ==
    \/ client_start
    \/ fetch_not_started
    \/ fetch_call
    \/ fetch_acquired
    \/ \E status \in Statuses, header \in RetryAfterHeaders :
          fetch_response(status, header)
    \/ fetch_rate_limited_done
    \/ \E exception \in {"TimeoutError", "ClientError", "Exception"} :
          fetch_error(exception)
    \/ fetch_backoff_done
    \/ \E c \in Callers : acquire(c)
    \/ Tick

SpecFetch == InitFetch /\ [][NextFetch]_vars

(* -------------------------------------------------------- process_doc_url *)
\* process_doc_url, the processor the engine gives to the queue, calls
\* http_client.fetch_text(url), which calls fetch
process_doc_url_fetch(w) ==
    /\ wpc[w] = "processor"
    /\ w \notin cancelled
    /\ fpc = "idle"
    /\ fetch_call

\* fetch is over. An exception of fetch goes through fetch_text and
\* process_doc_url to the worker. When fetch returned None, fetch_text
\* returns None and process_doc_url returns None (if not html: return None).
\* When it returned a response the page is parsed and saved, which returns
\* the content or raises.
process_doc_url_done(w, raises) ==
    /\ wpc[w] = "processor"
    /\ fpc = "returned"
    /\ fpc' = "idle"
    /\ CASE result = "nil" ->
              /\ processor_returns(w)
              /\ fetched_nil' = fetched_nil \cup {witem[w].url}
         [] result = "response" ->
              /\ IF raises THEN processor_raises(w, ProcessorError)
                           ELSE processor_returns(w)
              /\ UNCHANGED fetched_nil
         [] OTHER ->
              /\ processor_raises(w, result)
              /\ UNCHANGED fetched_nil
    /\ UNCHANGED <<enginevars, pagevars, jobvars, patternvars, limitervars,
                   retry_attempts, session,
                   cstats, attempt, result, calls, answered, fhist>>

(* ----------------------------------------------- templates and resources *)
\* if DocType.REFERENCE not in self.templates, taken as always true
template_missing_always(doc_type) == TRUE

\* if DocType.REFERENCE not in self.templates / if DocType.API not in
\* self.templates
template_missing(doc_type) == doc_type \notin templates

\* relative_path of a resource: static/<its type>/<basename of its URL>
local_path(url) ==
    IF url = Stylesheet THEN "static/css/site.css" ELSE "static/img/logo.png"

\* self.static_cache[url] = relative_path
cache_put(url) ==
    /\ static_cache' = [u \in DOMAIN static_cache \cup {url} |->
                          IF u = url THEN local_path(url) ELSE static_cache[u]]
    /\ cache_writes' = [cache_writes EXCEPT ![url] = @ + 1]

\* a worker's processor is called: process_doc_url awaits fetch_text(url)
process_doc_url(w) ==
    /\ ppc[w] = "idle"
    /\ pages_begun < MaxPages
    /\ pages_begun' = pages_begun + 1
    /\ ppc' = [ppc EXCEPT ![w] = "fetch_text"]
    /\ UNCHANGED <<queuevars, httpvars, enginevars, jobvars, patternvars, fetched_nil, templates,
                   static_cache, dtask, template_writes, pages_of,
                   fetches, cache_writes>>

\* fetch_text returned nothing: process_doc_url returns None
process_doc_url_nil(w) ==
    /\ ppc[w] = "fetch_text"
    /\ ppc' = [ppc EXCEPT ![w] = "idle"]
    /\ UNCHANGED <<queuevars, httpvars, enginevars, jobvars, patternvars, fetched_nil, templates,
                   static_cache, dtask, pages_begun, template_writes, pages_of,
                   fetches, cache_writes>>

\* fetch_text returned the page, of the given DocType, which has an article
\* (a main element) or not and lists the given resources.
\* process_reference_doc or process_api_doc extracts the template when the
\* slot of the DocType is empty, saves the content and calls
\* download_resources, which creates a download_resource task for every
\* listed resource that is not in the cache and gathers them. A guide page
\* has no processing.
process_doc(w, doc_type, has_article, listed) ==
    LET tasks == { slot \in listed : ResourceOf(slot) \notin DOMAIN static_cache }
    IN /\ ppc[w] = "fetch_text"
       /\ IF doc_type # GUIDE /\ template_missing(doc_type)
             THEN /\ templates' = templates \cup {doc_type}
                  /\ template_writes' =
                        [template_writes EXCEPT ![doc_type] = @ + 1]
             ELSE UNCHANGED <<templates, template_writes>>
       /\ IF doc_type # GUIDE /\ has_article /\ tasks # {}
             THEN /\ ppc' = [ppc EXCEPT ![w] = "gather"]
                  /\ dtask' = [dtask EXCEPT ![w] =
                                 [slot \in Slots |->
                                    IF slot \in tasks THEN "created"
                                                      ELSE "none"]]
             ELSE /\ ppc' = [ppc EXCEPT ![w] = "idle"]
                  /\ UNCHANGED dtask
       /\ pages_of' = [pages_of EXCEPT ![doc_type] = @ + 1]
       /\ UNCHANGED <<queuevars, httpvars, enginevars, jobvars, patternvars, fetched_nil,
                      static_cache, pages_begun, fetches, cache_writes>>

\* a download_resource task starts: the path in the cache is returned, or
\* fetch_bytes(url) is awaited
download_resource(w, slot) ==
    LET url == ResourceOf(slot)
    IN /\ dtask[w][slot] = "created"
       /\ IF url \in DOMAIN static_cache
             THEN /\ dtask' = [dtask EXCEPT ![w][slot] = "done"]
                  /\ UNCHANGED fetches
             ELSE /\ dtask' = [dtask EXCEPT ![w][slot] = "fetching"]
                  /\ fetches' = [fetches EXCEPT ![url] = @ + 1]
       /\ UNCHANGED <<queuevars, httpvars, enginevars, jobvars, patternvars, fetched_nil, templates,
                      static_cache, ppc, pages_begun, template_writes,
                      pages_of, cache_writes>>

\* fetch_bytes returned, the content or None. The content is written to the
\* file; for a stylesheet process_css_resources downloads what it refers to,
\* gathering a task for the image unless the image is in the cache; then the
\* path is put in the cache.
download_resource_fetched(w, slot, content, refers) ==
    LET url == ResourceOf(slot)
    IN /\ dtask[w][slot] = "fetching"
       /\ IF ~content
             THEN /\ dtask' = [dtask EXCEPT ![w][slot] = "done"]
                  /\ UNCHANGED <<static_cache, cache_writes>>
             ELSE IF url = Stylesheet /\ refers
                     /\ Image \notin DOMAIN static_cache
             THEN /\ dtask' = [dtask EXCEPT ![w][slot] = "css",
                                            ![w]["css_img"] = "created"]
                  /\ UNCHANGED <<static_cache, cache_writes>>
             ELSE /\ dtask' = [dtask EXCEPT ![w][slot] = "done"]
                  /\ cache_put(url)
       /\ UNCHANGED <<queuevars, httpvars, enginevars, jobvars, patternvars, fetched_nil, templates,
                      ppc, pages_begun, template_writes, pages_of, fetches>>

\* the tasks gathered by process_css_resources are done: the stylesheet's
\* path is put in the cache
download_resource_css_done(w, slot) ==
    /\ dtask[w][slot] = "css"
    /\ dtask[w]["css_img"] = "done"
    /\ dtask' = [dtask EXCEPT ![w][slot] = "done"]
    /\ cache_put(ResourceOf(slot))
    /\ UNCHANGED <<queuevars, httpvars, enginevars, jobvars, patternvars, fetched_nil, templates,
                   ppc, pages_begun, template_writes, pages_of, fetches>>

\* the gather of download_resources is over: the page is done
download_resources_done(w) ==
    /\ ppc[w] = "gather"
    /\ \A slot \in Slots : dtask[w][slot] \in {"none", "done"}
    /\ ppc' = [ppc EXCEPT ![w] = "idle"]
    /\ dtask' = [dtask EXCEPT ![w] = NoTasks]
    /\ UNCHANGED <<queuevars, httpvars, enginevars, jobvars, patternvars, fetched_nil, templates,
                   static_cache, pages_begun, template_writes, pages_of,
                   fetches, cache_writes>>

(* --------------------------------------------------------- progress events *)
\* while to_visit and len(pages) < 50; while to_visit and len(routes) < 200
page_limit == 50
route_limit == 200

min(a, b) == IF a < b THEN a ELSE b

\* the updates of a progress event; the scrapers name the stage 'status'
Event(stage, progress) == [stage |-> stage, progress |-> progress]

\* the error event of scrape_topic and of run_scraping, which has no progress
ErrorEvent == [stage |-> "error"]

\* _discover_pages: 10 + min(10, len(pages) // 5)
discovering_progress(n) == 10 + min(10, n \div 5)

\* _discover_routes_intelligently without the min: 5 + len(routes) // 10
route_progress_unbounded(n) == 5 + n \div 10

\* _discover_routes_intelligently: 5 + min(10, len(routes) // 10)
route_progress(n) == 5 + min(10, n \div 10)

\* 20 + int((pages_scraped / total_pages) * 70) in floating point: the
\* product is the exact 70 * i / n rounded, which among the totals up to the
\* route limit falls below the integer it should reach for 47/70 and 94/140
scraping_progress(i, n) ==
    20 + (IF <<i, n>> \in {<<47, 70>>, <<94, 140>>}
            THEN (70 * i) \div n - 1
            ELSE (70 * i) \div n)

\* task.update(updates)
update(record, updates) ==
    [k \in DOMAIN record \cup DOMAIN updates |->
        IF k \in DOMAIN updates THEN updates[k] ELSE record[k]]

\* socketio.emit of an event, which returns or raises
emit(event, raises) ==
    since_error' =
        IF ~raises /\ (since_error # <<>> \/ event.stage = "error")
          THEN Append(since_error, event.stage)
          ELSE since_error

\* The progress callback is called with the updates. That of run_scraping
\* and run_intelligent_scraping merges them into the record of the task and
\* emits the record; that of discover_topics emits the updates.
progress_callback(updates, raises) ==
    /\ delivered' = updates
    /\ last_progress' = IF "progress" \in DOMAIN updates
                           THEN updates.progress ELSE last_progress
    /\ IF service = "discovery"
          THEN /\ emit(updates, raises)
               /\ UNCHANGED task
          ELSE /\ emit(update(task, updates), raises)
               /\ task' = update(task, updates)

\* a statement of the job that raises before any callback
job_raises ==
    /\ jpc' = "except"
    /\ UNCHANGED <<task, delivered, last_progress, since_error>>

\* await self.progress_callback(task_id, updates) in the try block of a
\* scraper: an exception of the callback reaches the except block
job_reports(updates, raises, next) ==
    /\ progress_callback(updates, raises)
    /\ jpc' = IF raises THEN "except" ELSE next

\* the same inside a loop that catches the exception and goes on, and in
\* TopicDiscoveryService._emit_progress, which logs the exception
job_reports_caught(updates, raises, next) ==
    /\ progress_callback(updates, raises)
    /\ jpc' = next

rest_unchanged ==
    UNCHANGED <<queuevars, httpvars, enginevars, crawlvars, patternvars,
                service>>

\* run_scraping, run_intelligent_scraping: async with the service, whose
\* __aenter__ creates the session or raises
run_scraper(enters) ==
    /\ service \in {"basic", "intelligent"}
    /\ jpc = "queued"
    /\ jpc' = IF enters THEN "start" ELSE "run_except"
    /\ UNCHANGED <<found, scraped, task, delivered, last_progress, since_error>>
    /\ rest_unchanged

\* ScraperService.scrape_documentation: status starting
scrape_documentation_starting(raises) ==
    /\ service = "basic"
    /\ jpc = "start"
    /\ job_reports(Event("starting", 0), raises, "setup")
    /\ UNCHANGED <<found, scraped>>
    /\ rest_unchanged

\* os.makedirs, then status discovering
scrape_documentation_discovering(fails, raises) ==
    /\ service = "basic"
    /\ jpc = "setup"
    /\ IF fails THEN job_raises
                ELSE job_reports(Event("discovering", 10), raises, "discover")
    /\ UNCHANGED <<found, scraped>>
    /\ rest_unchanged

\* _discover_pages: an iteration that adds a page; one that skips the URL
\* changes nothing. The exception of the callback is caught in the loop.
discover_pages(raises) ==
    /\ service = "basic"
    /\ jpc = "discover"
    /\ found < page_limit
    /\ found' = found + 1
    /\ IF (found + 1) % 5 = 0
          THEN job_reports_caught(
                   Event("discovering", discovering_progress(found + 1)),
                   raises, "discover")
          ELSE UNCHANGED <<jpc, task, delivered, last_progress, since_error>>
    /\ UNCHANGED scraped
    /\ rest_unchanged

\* _discover_pages returns, to_visit being empty or the limit reached: status
\* scraping with the number of pages
scrape_documentation_scraping(raises) ==
    /\ service = "basic"
    /\ jpc = "discover"
    /\ job_reports(Event("scraping", 20), raises, "scrape")
    /\ UNCHANGED <<found, scraped>>
    /\ rest_unchanged

\* a page of the scraping loop of either scraper; the exception of the
\* callback is caught in the loop
scrape_page(raises) ==
    /\ service \in {"basic", "intelligent"}
    /\ jpc = "scrape"
    /\ scraped < found
    /\ scraped' = scraped + 1
    /\ job_reports_caught(
           Event("scraping", scraping_progress(scraped + 1, found)),
           raises, "scrape")
    /\ UNCHANGED found
    /\ rest_unchanged

\* ScraperService.scrape_documentation: status completed
scrape_documentation_completed(raises) ==
    /\ service = "basic"
    /\ jpc = "scrape"
    /\ scraped = found
    /\ job_reports(Event("completed", 100), raises, "returned")
    /\ UNCHANGED <<found, scraped>>
    /\ rest_unchanged

\* ScraperService.scrape_documentation: except Exception, status error with
\* progress 0; an exception of this callback leaves the service
scrape_documentation_error(raises) ==
    /\ service = "basic"
    /\ jpc = "except"
    /\ progress_callback(Event("error", 0), raises)
    /\ jpc' = IF raises THEN "raised" ELSE "returned"
    /\ UNCHANGED <<found, scraped>>
    /\ rest_unchanged

\* IntelligentScraperService.scrape_topic: status discovering, phase
\* route_analysis
scrape_topic_route_analysis(raises) ==
    /\ service = "intelligent"
    /\ jpc = "start"
    /\ job_reports(Event("discovering", 5), raises, "discover")
    /\ UNCHANGED <<found, scraped>>
    /\ rest_unchanged

\* _discover_routes_intelligently: an iteration that fetches a page, which is
\* documentation or not; one that skips the URL changes nothing. The
\* exception of the callback is caught in the loop.
discover_routes_intelligently(documentation, raises) ==
    LET routes == IF documentation THEN found + 1 ELSE found
    IN /\ service = "intelligent"
       /\ jpc = "discover"
       /\ found < route_limit
       /\ found' = routes
       /\ IF routes % 10 = 0
             THEN job_reports_caught(
                      Event("discovering", route_progress(routes)),
                      raises, "discover")
             ELSE UNCHANGED <<jpc, task, delivered, last_progress, since_error>>
       /\ UNCHANGED scraped
       /\ rest_unchanged

\* _discover_routes_intelligently returns: status discovering, phase
\* layout_detection
scrape_topic_layout_detection(raises) ==
    /\ service = "intelligent"
    /\ jpc = "discover"
    /\ job_reports(Event("discovering", 15), raises, "layout")
    /\ UNCHANGED <<found, scraped>>
    /\ rest_unchanged

\* _detect_layout_patterns, then status scraping, phase content_extraction
scrape_topic_content_extraction(fails, raises) ==
    /\ service = "intelligent"
    /\ jpc = "layout"
    /\ IF fails THEN job_raises
                ELSE job_reports(Event("scraping", 20), raises, "scrape")
    /\ UNCHANGED <<found, scraped>>
    /\ rest_unchanged

\* the scraping loop is over: status processing
scrape_topic_processing(raises) ==
    /\ service = "intelligent"
    /\ jpc = "scrape"
    /\ scraped = found
    /\ job_reports(Event("processing", 95), raises, "organize")
    /\ UNCHANGED <<found, scraped>>
    /\ rest_unchanged

\* _organize_content, then status completed
scrape_topic_completed(fails, raises) ==
    /\ service = "intelligent"
    /\ jpc = "organize"
    /\ IF fails THEN job_raises
                ELSE job_reports(Event("completed", 100), raises, "returned")
    /\ UNCHANGED <<found, scraped>>
    /\ rest_unchanged

\* IntelligentScraperService.scrape_topic: except Exception, status error
\* without a progress; an exception of this callback leaves the service
scrape_topic_error(raises) ==
    /\ service = "intelligent"
    /\ jpc = "except"
    /\ progress_callback(ErrorEvent, raises)
    /\ jpc' = IF raises THEN "raised" ELSE "returned"
    /\ UNCHANGED <<found, scraped>>
    /\ rest_unchanged

\* the service's __aexit__: await self.session.close(), which returns or
\* raises; an exception that left the service goes on to run_scraping
aexit(close_raises) ==
    /\ jpc \in {"returned", "raised"}
    /\ jpc' = IF jpc = "raised" \/ close_raises THEN "run_except"
                                                 ELSE "finished"
    /\ UNCHANGED <<found, scraped, task, delivered, last_progress, since_error>>
    /\ rest_unchanged

\* run_scraping, run_intelligent_scraping: except Exception sends the error
\* update, without a progress
run_scraping_except(raises) ==
    /\ jpc = "run_except"
    /\ job_reports_caught(ErrorEvent, raises, "finished")
    /\ UNCHANGED <<found, scraped>>
    /\ rest_unchanged

\* TopicDiscoveryService.discover_topics: stage url_analysis
discover_topics_url_analysis(raises) ==
    /\ service = "discovery"
    /\ jpc = "queued"
    /\ job_reports_caught(Event("url_analysis", 10), raises, "url")
    /\ UNCHANGED <<found, scraped>>
    /\ rest_unchanged

\* _get_discovery_url, then stage page_fetch
discover_topics_page_fetch(fails, raises) ==
    /\ service = "discovery"
    /\ jpc = "url"
    /\ IF fails THEN job_raises
                ELSE job_reports_caught(Event("page_fetch", 20), raises,
                                        "fetch")
    /\ UNCHANGED <<found, scraped>>
    /\ rest_unchanged

\* _fetch_page returned nothing: stage error, and discover_topics returns
discover_topics_fetch_failed(raises) ==
    /\ service = "discovery"
    /\ jpc = "fetch"
    /\ job_reports_caught(Event("error", 0), raises, "finished")
    /\ UNCHANGED <<found, scraped>>
    /\ rest_unchanged

\* _fetch_page returned the page, or raised: stage navigation_extraction
discover_topics_navigation_extraction(fails, raises) ==
    /\ service = "discovery"
    /\ jpc = "fetch"
    /\ IF fails THEN job_raises
                ELSE job_reports_caught(Event("navigation_extraction", 40),
                                        raises, "navigation")
    /\ UNCHANGED <<found, scraped>>
    /\ rest_unchanged

\* _extract_navigation, then stage ai_analysis
discover_topics_ai_analysis(fails, raises) ==
    /\ service = "discovery"
    /\ jpc = "navigation"
    /\ IF fails THEN job_raises
                ELSE job_reports_caught(Event("ai_analysis", 60), raises,
                                        "analysis")
    /\ UNCHANGED <<found, scraped>>
    /\ rest_unchanged

\* _analyze_with_gemini, then stage complete
discover_topics_complete(fails, raises) ==
    /\ service = "discovery"
    /\ jpc = "analysis"
    /\ IF fails THEN job_raises
                ELSE job_reports_caught(Event("complete", 100), raises,
                                        "finished")
    /\ UNCHANGED <<found, scraped>>
    /\ rest_unchanged

\* TopicDiscoveryService.discover_topics: except Exception, stage error
discover_topics_error(raises) ==
    /\ service = "discovery"
    /\ jpc = "except"
    /\ job_reports_caught(Event("error", 0), raises, "finished")
    /\ UNCHANGED <<found, scraped>>
    /\ rest_unchanged

(* -------------------------------------------------------- URL normalisation *)
\* The text of a URL is the sequence of its parts: the scheme, "://", the
\* host, the characters of the path, "?" and those of the query, "#" and
\* those of the fragment.
\* the first position of s that holds the delimiter, Len(s) + 1 if none does
RECURSIVE find(_, _, _)
find(s, delimiter, i) ==
    IF i > Len(s) \/ s[i] = delimiter THEN i ELSE find(s, delimiter, i + 1)

\* urlparse(url): the fragment is what follows the first "#", the query
\* what follows the first "?" before it, the path what precedes them
urlparse(url) ==
    LET rest == SubSeq(url, 4, Len(url))
        hash == find(rest, "#", 1)
        hier == SubSeq(rest, 1, hash - 1)
        mark == find(hier, "?", 1)
    IN [scheme |-> url[1], netloc |-> url[3],
        path |-> SubSeq(hier, 1, mark - 1),
        query |-> SubSeq(hier, mark + 1, Len(hier)),
        fragment |-> SubSeq(rest, hash + 1, Len(rest))]

\* the text of the URL that has the given parts
text(parts) ==
    <<parts.scheme, "://", parts.netloc>> \o parts.path
      \o (IF parts.query # <<>> THEN <<"?">> \o parts.query ELSE <<>>)
      \o (IF parts.fragment # <<>> THEN <<"#">> \o parts.fragment ELSE <<>>)

\* the sequences over the characters of at most the given length
RECURSIVE Strings(_, _)
Strings(chars, n) ==
    IF n = 0 THEN {<<>>}
    ELSE Strings(chars, n - 1) \cup
         { Append(t, c) : t \in Strings(chars, n - 1), c \in chars }

\* The URLs given to _normalize_url: a path that is empty or begins with
\* "/", any query, any fragment
NormalizeInputs ==
    { text(Url(path, query, fragment)) :
        path \in { t \in Strings({"/", "a"}, MaxPathLen) :
                     t = <<>> \/ t[1] = "/" },
        query \in Strings({"q", "/"}, MaxQueryLen),
        fragment \in Strings({"f", "/"}, 1) }

\* _normalize_url is applied to the URL
normalize_url ==
    /\ given_url # NoUrl
    /\ normalized = <<>>
    /\ normalized' = _normalize_url(urlparse(given_url))
    /\ UNCHANGED <<queuevars, httpvars, enginevars, crawlvars, jobvars, urls,
                   patterns, repatterns, routevars, given_url, renormalized>>

\* _normalize_url is applied to what it returned
normalize_url_again ==
    /\ normalized # <<>>
    /\ renormalized = <<>>
    /\ renormalized' = _normalize_url(urlparse(normalized))
    /\ UNCHANGED <<queuevars, httpvars, enginevars, crawlvars, jobvars, urls,
                   patterns, repatterns, routevars, given_url, normalized>>

(* ------------------------------------------------------------ URL patterns *)
\* A path is the sequence of its characters. The classes of the regular
\* expressions: \d, [0-9a-f], [a-z], [A-Z]
Digits == {"0", "1", "2", "3", "4", "5", "6", "7", "8", "9"}
HexDigits == Digits \cup {"a", "b", "c", "d", "e", "f"}
LowerCase ==
    {"a", "b", "c", "d", "e", "f", "g", "h", "i", "j", "k", "l", "m"} \cup
    {"n", "o", "p", "q", "r", "s", "t", "u", "v", "w", "x", "y", "z"}
UpperCase ==
    {"A", "B", "C", "D", "E", "F", "G", "H", "I", "J", "K", "L", "M"} \cup
    {"N", "O", "P", "Q", "R", "S", "T", "U", "V", "W", "X", "Y", "Z"}

\* the character at position i of s is of the class
is(s, i, class) == i <= Len(s) /\ s[i] \in class

\* the length of the longest run of characters of the class from position i
RECURSIVE run(_, _, _)
run(s, i, class) ==
    IF is(s, i, class) THEN 1 + run(s, i + 1, class) ELSE 0

\* the length of the longest match of (\.\d+)* at position i
RECURSIVE dotted(_, _)
dotted(s, i) ==
    IF is(s, i, {"."}) /\ run(s, i + 1, Digits) > 0
      THEN 1 + run(s, i + 1, Digits)
             + dotted(s, i + 1 + run(s, i + 1, Digits))
      ELSE 0

\* s has the characters of the literal at position i
literal(s, i, lit) ==
    \A k \in 1..Len(lit) : is(s, i + k - 1, {lit[k]})

\* The regular expressions of _extract_url_pattern, in their order, and what
\* replaces their matches
rules == 1..6
replacement(rule) ==
    CASE rule = 1 -> <<"/", "{", "i", "d", "}">>
      [] rule = 2 -> <<"/", "{", "h", "a", "s", "h", "}">>
      [] rule = 3 -> <<"/", "v", "{", "v", "e", "r", "s", "i", "o", "n", "}">>
      [] rule = 4 -> <<"/", "{", "d", "a", "t", "e", "}">>
      [] rule = 5 -> <<"/", "{", "l", "o", "c", "a", "l", "e", "}">>
      [] rule = 6 -> <<"/", "p", "a", "g", "e", "/", "{", "n", "}">>

\* the length of the match of the rule's expression at position i of s, 0
\* when it does not match there:
\*   /\d+   /[0-9a-f]{8,}   /v\d+(\.\d+)*   /\d{4}/\d{2}/\d{2}
\*   /[a-z]{2}-[A-Z]{2}   /page/\d+
match(rule, s, i) ==
    CASE rule = 1 ->
           IF is(s, i, {"/"}) /\ run(s, i + 1, Digits) > 0
             THEN 1 + run(s, i + 1, Digits) ELSE 0
      [] rule = 2 ->
           IF is(s, i, {"/"}) /\ run(s, i + 1, HexDigits) >= 8
             THEN 1 + run(s, i + 1, HexDigits) ELSE 0
      [] rule = 3 ->
           IF literal(s, i, <<"/", "v">>) /\ run(s, i + 2, Digits) > 0
             THEN 2 + run(s, i + 2, Digits)
                    + dotted(s, i + 2 + run(s, i + 2, Digits))
             ELSE 0
      [] rule = 4 ->
           IF /\ is(s, i, {"/"})
              /\ \A k \in 1..4 : is(s, i + k, Digits)
              /\ is(s, i + 5, {"/"})
              /\ \A k \in 6..7 : is(s, i + k, Digits)
              /\ is(s, i + 8, {"/"})
              /\ \A k \in 9..10 : is(s, i + k, Digits)
             THEN 11 ELSE 0
      [] rule = 5 ->
           IF /\ is(s, i, {"/"})
              /\ \A k \in 1..2 : is(s, i + k, LowerCase)
              /\ is(s, i + 3, {"-"})
              /\ \A k \in 4..5 : is(s, i + k, UpperCase)
             THEN 6 ELSE 0
      [] rule = 6 ->
           IF literal(s, i, <<"/", "p", "a", "g", "e", "/">>) /\ run(s, i + 6, Digits) > 0
             THEN 6 + run(s, i + 6, Digits) ELSE 0

\* re.sub(regex, replacement, s) from position i: the matches are taken from
\* left to right and do not overlap
RECURSIVE re_sub(_, _, _)
re_sub(rule, s, i) ==
    IF i > Len(s) THEN <<>>
    ELSE IF match(rule, s, i) > 0
           THEN replacement(rule) \o re_sub(rule, s, i + match(rule, s, i))
           ELSE <<s[i]>> \o re_sub(rule, s, i + 1)

\* for regex, replacement in patterns: pattern = re.sub(regex, replacement,
\* pattern), from the given rule on
RECURSIVE substituted(_, _)
substituted(rule, pattern) ==
    IF rule \notin rules THEN pattern
    ELSE substituted(rule + 1, re_sub(rule, pattern, 1))

\* _extract_url_pattern of a URL with the given path
extract_url_pattern(path) == substituted(1, path)

\* The segments a path is made of: a fixed one, or a dynamic one, which has
\* one of several values
SegmentKinds ==
    {"static", "id", "hash", "version", "date", "locale", "page"}
SegmentValues(kind) ==
    CASE kind = "static" -> {<<"g", "u", "i", "d", "e">>}
      [] kind = "id" -> {<<"7">>, <<"4", "2">>}
      [] kind = "hash" -> {<<"d", "e", "a", "d", "b", "e", "e", "f">>,
                          <<"c", "a", "f", "e", "b", "a", "b", "e", "0", "1">>,
                          <<"1", "a", "2", "b", "3", "c", "4", "d">>}
      [] kind = "version" -> {<<"v", "2">>, <<"v", "1", ".", "2", ".", "3">>}
      [] kind = "date" -> {<<"2", "0", "2", "4", "/", "0", "1", "/", "1", "5">>,
                          <<"2", "0", "2", "3", "/", "1", "2", "/", "0", "1">>}
      [] kind = "locale" -> {<<"e", "n", "-", "U", "S">>, <<"f", "r", "-", "F", "R">>}
      [] kind = "page" -> {<<"p", "a", "g", "e", "/", "2">>, <<"p", "a", "g", "e", "/", "3", "1">>}

\* the path /docs/<segment>/<segment>...
RECURSIVE PathOf(_)
PathOf(segments) ==
    IF segments = <<>> THEN <<"/", "d", "o", "c", "s">>
    ELSE PathOf(SubSeq(segments, 1, Len(segments) - 1))
           \o <<"/">> \o segments[Len(segments)]

\* the pairs of paths that have the same kinds of segments in the same order
\* and differ at most in the values of the dynamic ones
Templates == UNION { [1..n -> SegmentKinds] : n \in 1..MaxSegments }
Choices(template) ==
    { v \in [DOMAIN template -> UNION { SegmentValues(k) : k \in SegmentKinds }] :
        \A i \in DOMAIN template : v[i] \in SegmentValues(template[i]) }
UrlPairs ==
    UNION { { <<PathOf(a), PathOf(b)>> : a, b \in Choices(template) } :
            template \in Templates }

\* _extract_url_pattern is applied to both URLs
extract_patterns ==
    /\ urls # <<>>
    /\ patterns = <<>>
    /\ patterns' = <<extract_url_pattern(urls[1]), extract_url_pattern(urls[2])>>
    /\ UNCHANGED <<queuevars, httpvars, enginevars, crawlvars, jobvars, normvars,
                   urls,
                   repatterns, routevars>>

\* _extract_url_pattern is applied to the patterns it returned
extract_patterns_again ==
    /\ patterns # <<>>
    /\ repatterns = <<>>
    /\ repatterns' = <<extract_url_pattern(patterns[1]),
                       extract_url_pattern(patterns[2])>>
    /\ UNCHANGED <<queuevars, httpvars, enginevars, crawlvars, jobvars, normvars,
                   urls,
                   patterns, routevars>>

\* _is_likely_dynamic_route: the path ends with a number, or has a page
\* number, a hex id of 24 or more digits, a date or a '#'
is_likely_dynamic_route(path) ==
    \E i \in 1..Len(path) :
        \/ match(1, path, i) > 0 /\ i + match(1, path, i) - 1 = Len(path)
        \/ match(6, path, i) > 0
        \/ path[i] = "/" /\ run(path, i + 1, HexDigits) >= 24
        \/ match(4, path, i) > 0
        \/ path[i] = "#"

\* if pattern in seen_patterns and self._is_likely_dynamic_route(url)
known_dynamic(url) ==
    extract_url_pattern(url) \in seen_patterns /\ is_likely_dynamic_route(url)

\* The site of a topic: its start URL and the pages under it, none of which
\* _should_skip_url skips
start_url == PathOf(<<>>)
SiteUrls ==
    {start_url} \cup
    { PathOf(<<v>>) : v \in UNION { SegmentValues(k) :
                                      k \in {"static", "id"} } }

\* _discover_routes_intelligently begins: to_visit = {start_url}
discover_routes_begin ==
    /\ service = "intelligent"
    /\ jpc = "discover"
    /\ to_visit = {}
    /\ visited = {}
    /\ to_visit' = {start_url}
    /\ UNCHANGED <<queuevars, httpvars, enginevars, crawlvars, jobvars, normvars,
                   urls,
                   patterns, repatterns, visited, seen_patterns, fetched>>

\* _discover_routes_intelligently: one iteration on a URL of to_visit. The
\* URL is dropped when it was visited, or when its pattern is recorded and
\* it looks dynamic; else it is requested, and when the answer is a 200 its
\* page is recorded as a route with its pattern if it is documentation, the
\* progress is reported at every tenth route, and its links in scope that
\* were not visited are added to to_visit.
discover_route(url, ok, documentation, links, raises) ==
    LET pattern == extract_url_pattern(url)
        dropped == url \in visited \/ known_dynamic(url)
        routes == IF ~dropped /\ ok /\ documentation THEN found + 1 ELSE found
    IN /\ service = "intelligent"
       /\ jpc = "discover"
       /\ found < route_limit
       /\ url \in to_visit
       /\ visited' = visited \cup {url}
       /\ fetched' = IF dropped THEN fetched ELSE fetched \cup {url}
       /\ found' = routes
       /\ seen_patterns' = IF routes > found
                              THEN seen_patterns \cup {pattern}
                              ELSE seen_patterns
       /\ to_visit' = (to_visit \ {url}) \cup
                        (IF ~dropped /\ ok THEN links \ (visited \cup {url})
                                           ELSE {})
       /\ IF ~dropped /\ ok /\ routes % 10 = 0
             THEN job_reports_caught(
                      Event("discovering", route_progress(routes)),
                      raises, "discover")
             ELSE UNCHANGED <<jpc, task, delivered, last_progress, since_error>>
       /\ UNCHANGED <<queuevars, httpvars, enginevars, crawlvars, service,
                      scraped, normvars, urls, patterns, repatterns>>

(* ------------------------------------------------------ graceful shutdown *)
Exited(status) == [kind |-> "exited", status |-> status]

\* no Python code runs once the process has exited
Running == exit_status = NotExited

\* variant: the queue is stopped before the checkpoint is taken
monitor_order_stop_first == <<"stop", "checkpoint", "cancel">>

\* the statements of monitor_shutdown after its wait, in the order of the
\* source
monitor_order == <<"checkpoint", "stop", "cancel">>

\* the statement that follows the one labelled pc
monitor_after(pc) ==
    IF pc = "waiting" THEN monitor_order[1]
    ELSE LET i == CHOOSE k \in DOMAIN monitor_order : monitor_order[k] = pc
         IN IF i < Len(monitor_order) THEN monitor_order[i + 1] ELSE "done"

\* monitor_shutdown runs from its wait to its end without an await that
\* suspends it: no other task runs in between, only a signal handler may
Scheduled == Running /\ spc \in {"none", "waiting", "done", "raised", "cancelled"}

\* the main task runs when it is scheduled and was not cancelled
MainRuns == Scheduled /\ ~mcancel

\* GracefulShutdown.handle_signal, the handler of SIGINT and SIGTERM: the
\* first signal sets the event and arms the forced exit, the next one calls
\* sys.exit(1)
handle_signal ==
    /\ Running
    /\ spc # "none"
    /\ IF force_shutdown
          THEN /\ exit_status' = Exited(1)
               /\ events' = Append(events, "exit")
               /\ UNCHANGED <<shutdown_event, force_shutdown>>
          ELSE /\ shutdown_event' = TRUE
               /\ force_shutdown' = TRUE
               /\ events' = Append(events, "shutdown")
               /\ UNCHANGED exit_status
    /\ UNCHANGED <<queuevars, httpvars, crawlvars, jobvars, patternvars, save_checkpoint, spc,
                   mcancel, runvars>>

\* scrape_all up to its first await: the handlers are installed and the
\* monitor_shutdown task is created; with clean the output directory is
\* removed, and the checkpoint with it; a checkpoint that is found is
\* resumed from, and json.load raises on a torn one; else the main task goes
\* on to fetch the projects and their versions
scrape_all ==
    /\ Running
    /\ spc = "none"
    /\ mpc = "ready"
    /\ spc' = "waiting"
    /\ checkpoint_file' = IF clean THEN None ELSE checkpoint_file
    /\ mpc' = IF ~clean /\ checkpoint_file = Torn THEN "failed" ELSE "setup"
    /\ UNCHANGED <<clean, end_time, created>>
    /\ UNCHANGED <<httpvars, cfgvars, heap, fifo, unfinished, setvars, stats,
                   running, wpc, witem, wput, cancelled, mput,
                   on_complete_calls, ckvars, stopvars, callback_errors, hist,
                   save_checkpoint, shutdown_event, force_shutdown, mcancel,
                   exit_status, events, crawlvars, jobvars, patternvars>>

\* scrape_current_docs: url_queue.start(self.process_doc_url); the seed URLs
\* are added next
scrape_current_docs ==
    /\ Scheduled
    /\ mpc = "setup"
    /\ ~mcancel
    /\ mpc' = "ready"
    /\ running' = TRUE
    /\ wpc' = [w \in Workers |-> IF w <= max_workers THEN "get" ELSE "none"]
    /\ UNCHANGED <<extravars, httpvars, cfgvars, heap, unfinished, setvars,
                   stats, witem, wput, cancelled, mput, on_complete_calls,
                   ckvars, stopvars, callback_errors, fifo, hist>>

\* monitor_shutdown, woken by the event: one statement of it
monitor_shutdown ==
    /\ Running
    /\ shutdown_event
    /\ spc \in {"waiting"} \cup { monitor_order[i] : i \in DOMAIN monitor_order }
    /\ LET statement == monitor_after(spc)
       IN /\ spc' = statement
          /\ CASE statement = "checkpoint" ->
                    \* if self.save_checkpoint: await save_checkpoint_data()
                    /\ IF save_checkpoint
                          THEN /\ save_state_effects
                               /\ events' = Append(events, "checkpoint")
                               /\ checkpoint_file' = Written
                               /\ created' = TRUE
                          ELSE UNCHANGED <<queuevars, httpvars, events,
                                           checkpoint_file, created>>
                    /\ UNCHANGED <<running, cancelled, mcancel>>
               [] statement = "stop" ->
                    \* self.url_queue.running = False
                    /\ running' = FALSE
                    /\ events' = Append(events, "stop")
                    /\ UNCHANGED <<httpvars, cfgvars, heap, fifo, unfinished,
                                   setvars, stats, wpc, witem, wput, cancelled,
                                   mpc, mput, on_complete_calls, ckvars,
                                   stopvars, callback_errors, hist, mcancel,
                                   checkpoint_file, created>>
               [] statement = "cancel" ->
                    \* every task but this one is cancelled
                    /\ cancelled' = { w \in Workers : wpc[w] # "none" }
                    /\ mcancel' = (mpc \notin {"cancelled", "left", "ended"})
                    /\ events' = Append(events, "cancel")
                    /\ UNCHANGED <<httpvars, cfgvars, heap, fifo, unfinished,
                                   setvars, stats, running, wpc, witem, wput,
                                   mpc, mput, on_complete_calls, ckvars,
                                   stopvars, callback_errors, hist,
                                   checkpoint_file, created>>
               [] statement = "done" ->
                    UNCHANGED <<queuevars, httpvars, mcancel, events,
                                checkpoint_file, created>>
    /\ UNCHANGED <<save_checkpoint, shutdown_event, force_shutdown,
                   exit_status, crawlvars, jobvars, patternvars, clean,
                   end_time>>

\* CancelledError is raised in the main task where it is suspended: before
\* scrape_current_docs it leaves scrape_all at once, inside it the finally
\* arm calls url_queue.stop() first; inside cleanup it leaves cleanup, whose
\* except arm is for Exception
main_cancelled ==
    /\ Scheduled
    /\ mcancel
    /\ mcancel' = FALSE
    /\ mpc' = IF mpc = "setup" THEN "left"
              ELSE IF mpc = "closing" THEN "ended" ELSE "cancelled"
    /\ mput' = NoItem
    /\ UNCHANGED <<httpvars, cfgvars, heap, fifo, unfinished, setvars, stats,
                   running, wpc, witem, wput, cancelled, on_complete_calls,
                   ckvars, stopvars, callback_errors, hist, save_checkpoint,
                   shutdown_event, force_shutdown, spc, exit_status, events,
                   runvars, crawlvars, jobvars, patternvars>>

\* the finally arm of scrape_current_docs, reached when wait_complete has
\* returned or was cancelled: await self.url_queue.stop()
scrape_current_docs_finally ==
    /\ Scheduled
    /\ mpc \in {"done", "cancelled"}
    /\ stops = 0
    /\ stop

\* monitor_shutdown, woken by the event, when save_checkpoint_data raises:
\* save_state has written the queue's file, then open() of the checkpoint
\* file raises, or json.dump raises and leaves a torn file. Nothing in
\* save_checkpoint_data or in monitor_shutdown catches it: the task ends
\* with the exception.
monitor_shutdown_raises(torn) ==
    /\ Running
    /\ shutdown_event
    /\ spc = "waiting"
    /\ monitor_after(spc) = "checkpoint"
    /\ save_checkpoint
    /\ save_state_effects
    /\ spc' = "raised"
    /\ checkpoint_file' = IF torn THEN Torn ELSE checkpoint_file
    /\ created' = (created \/ torn)
    /\ UNCHANGED <<running, cancelled, save_checkpoint, shutdown_event,
                   force_shutdown, mcancel, exit_status, events, clean,
                   end_time, crawlvars, jobvars, patternvars>>

\* scrape_all after scrape_current_docs has returned: create_spa_index,
\* save_metadata, self.end_time = datetime.now(); the main task is then
\* suspended in the __aexit__ of the progress tracker
scrape_all_completes ==
    /\ MainRuns
    /\ mpc = "done"
    /\ stops > 0
    /\ mpc' = "completed"
    /\ end_time' = TRUE
    /\ UNCHANGED <<httpvars, cfgvars, heap, fifo, unfinished, setvars, stats,
                   running, wpc, witem, wput, cancelled, mput,
                   on_complete_calls, ckvars, stopvars, callback_errors, hist,
                   save_checkpoint, shutdown_event, force_shutdown, spc,
                   mcancel, exit_status, events, clean, checkpoint_file,
                   created, crawlvars, jobvars, patternvars>>

\* the finally arm of scrape_all: cleanup begins with await
\* self.http_client.close(), where the main task is suspended
cleanup_close ==
    /\ MainRuns
    /\ \/ mpc \in {"completed", "left"}
       \/ mpc = "cancelled" /\ stops > 0
    /\ mpc' = "closing"
    /\ UNCHANGED <<httpvars, cfgvars, heap, fifo, unfinished, setvars, stats,
                   running, wpc, witem, wput, cancelled, mput,
                   on_complete_calls, ckvars, stopvars, callback_errors, hist,
                   extravars>>

\* the rest of cleanup: the monitor_shutdown task is cancelled if it is not
\* done, and the checkpoint is removed if end_time is set and the file
\* exists. When resume_from_checkpoint has raised, the main task was
\* suspended in the __aexit__ of the progress tracker; there is no session
\* to close and cleanup runs to here without being suspended.
cleanup ==
    /\ MainRuns
    /\ mpc \in {"closing", "failed"}
    /\ mpc' = "ended"
    /\ spc' = IF spc = "waiting" THEN "cancelled" ELSE spc
    /\ checkpoint_file' = IF end_time /\ checkpoint_file # None
                             THEN None ELSE checkpoint_file
    /\ UNCHANGED <<httpvars, cfgvars, heap, fifo, unfinished, setvars, stats,
                   running, wpc, witem, wput, cancelled, mput,
                   on_complete_calls, ckvars, stopvars, callback_errors, hist,
                   save_checkpoint, shutdown_event, force_shutdown, mcancel,
                   exit_status, events, clean, end_time, created, crawlvars,
                   jobvars, patternvars>>

(* ------------------------------------------------------ seeds and pages *)
\* the metadata scrape_current_docs gives to the URLs it adds
Seed(doc_type) == [kind |-> "doc", doc_type |-> doc_type, is_index |-> TRUE]

\* scrape_current_docs: the reference and API URLs of every project are
\* added at HIGH priority with is_index = True
scrape_current_docs_add(raw, doc_type) ==
    add_url(raw, HIGH, Seed(doc_type))

\* variant: every reference page queues the pages of its navigation
is_index_or_not(metadata) == metadata.kind = "doc"

\* process_reference_doc: if metadata.get('is_index')
is_index(metadata) == metadata.kind = "doc" /\ metadata.is_index

\* process_doc_url on an item whose page was fetched: process_reference_doc
\* is called for a REFERENCE item and, if the item is an index, it awaits
\* queue_reference_pages, which adds the links of the navigation one by one
\* at NORMAL priority with is_index = False; process_api_doc adds nothing
queue_reference_pages(w, raw) ==
    /\ witem[w].metadata.kind = "doc"
    /\ witem[w].metadata.doc_type = REFERENCE
    /\ is_index(witem[w].metadata)
    /\ processor_add_url(w, raw)

(* ------------------------------------------------------------------ Next *)
Offer(raw) ==
    add_url(raw, SeedPriority(PageIndex(raw)), SeedMetadata(PageIndex(raw)))

\* The queue as the tests drive it: the main task adds the URLs, starts the
\* workers, waits and stops; the processor and the callbacks return or raise.
Next ==
    \/ \E raw \in RawUrls(pages) : Offer(raw)
    \/ add_url_resume
    \/ start
    \/ wait_complete
    \/ wait_complete_return
    \/ running /\ stop
    \/ \E w \in Workers : worker_get(w)
    \/ \E w \in Workers : processor_return(w)
    \/ \E w \in Workers : processor_raise(w)
    \/ \E w \in Workers : on_success_return(w)
    \/ \E w \in Workers : on_success_raise(w)
    \/ \E w \in Workers : on_failure_done(w)
    \/ \E w \in Workers : retry_put_resume(w)
    \/ \E w \in Workers : worker_cancelled(w)

Spec == Init /\ [][Next]_vars

\* The same, stop() being called also on a queue that is not running: one
\* that was never started, or one that was stopped already.
NextStop ==
    \/ Next
    \/ ~running /\ stop

SpecStop == Init /\ [][NextStop]_vars

(* The engine: scrape_all creates the monitor task and starts the crawl;    *)
(* signals arrive at any time. A task runs only when it is scheduled and   *)
(* was not cancelled.                                                      *)
InitShutdown ==
    /\ QueueInit({FixtureWorkers}, {MaxQueueSize}, {MaxRetries}, {MaxUrls})
    /\ InitHTTP({MaxBurst}, {MaxAttempts})
    /\ InitEngine(BOOLEAN)

NextShutdown ==
    \/ scrape_all
    \/ scrape_current_docs
    \/ handle_signal
    \/ monitor_shutdown
    \/ main_cancelled
    \/ scrape_current_docs_finally
    \/ MainRuns /\ \E raw \in RawUrls(pages) : Offer(raw)
    \/ MainRuns /\ add_url_resume
    \/ MainRuns /\ wait_complete
    \/ MainRuns /\ wait_complete_return
    \/ Scheduled /\ \E w \in Workers : worker_get(w)
    \/ Scheduled /\ \E w \in Workers : processor_return(w)
    \/ Scheduled /\ \E w \in Workers : processor_raise(w)
    \/ Scheduled /\ \E w \in Workers : on_success_return(w)
    \/ Scheduled /\ \E w \in Workers : on_failure_done(w)
    \/ Scheduled /\ \E w \in Workers : retry_put_resume(w)
    \/ Scheduled /\ \E w \in Workers : worker_cancelled(w)

SpecShutdown == InitShutdown /\ [][NextShutdown]_vars

(* A run of the engine from scrape_all to the end of cleanup, in an output *)
(* directory where an earlier run may have left a checkpoint; signals      *)
(* arrive at any time and the write of the checkpoint may raise.           *)
InitLifecycle ==
    /\ QueueInit({FixtureWorkers}, {MaxQueueSize}, {MaxRetries}, {MaxUrls})
    /\ InitHTTP({MaxBurst}, {MaxAttempts})
    /\ InitScraperIn(BOOLEAN, BOOLEAN, {None, Written})
    /\ InitJob({NoService})
    /\ InitPattern({<<>>})

NextLifecycle ==
    \/ NextShutdown
    \/ \E torn \in BOOLEAN : monitor_shutdown_raises(torn)
    \/ scrape_all_completes
    \/ cleanup_close
    \/ cleanup

SpecLifecycle == InitLifecycle /\ [][NextLifecycle]_vars

(* The crawl: the queue of the engine, whose one worker runs               *)
(* process_doc_url on the HTTP client; the server answers what it likes.    *)
InitCrawl ==
    /\ QueueInit({1}, {MaxQueueSize}, {MaxRetries}, {MaxUrls})
    /\ InitHTTP({2 * rate}, {MaxAttempts})
    /\ InitEngine({TRUE})

NextCrawl ==
    \/ client_start
    \/ session /\ start
    \/ \E raw \in RawUrls(pages) : Offer(raw)
    \/ add_url_resume
    \/ wait_complete
    \/ wait_complete_return
    \/ \E w \in Workers : worker_get(w)
    \/ \E w \in Workers : process_doc_url_fetch(w)
    \/ fetch_acquired
    \/ \E status \in Statuses, header \in RetryAfterHeaders :
          fetch_response(status, header)
    \/ fetch_rate_limited_done
    \/ \E exception \in {"TimeoutError", "ClientError", "Exception"} :
          fetch_error(exception)
    \/ fetch_backoff_done
    \/ Tick
    \/ \E w \in Workers, raises \in BOOLEAN : process_doc_url_done(w, raises)
    \/ \E w \in Workers : on_success_return(w)
    \/ \E w \in Workers : on_failure_done(w)

SpecCrawl == InitCrawl /\ [][NextCrawl]_vars

(* The pages: the workers of the engine run process_doc_url on pages of   *)
(* any DocType that list any of the resources.                             *)
InitPages ==
    /\ QueueInit({FixtureWorkers}, {MaxQueueSize}, {MaxRetries}, {MaxUrls})
    /\ InitHTTP({MaxBurst}, {MaxAttempts})
    /\ InitEngine({TRUE})

NextPages ==
    \/ \E w \in Workers : process_doc_url(w)
    \/ \E w \in Workers : process_doc_url_nil(w)
    \/ \E w \in Workers, doc_type \in DocType, has_article \in BOOLEAN,
          listed \in SUBSET {"page_css", "page_img"} :
          process_doc(w, doc_type, has_article, listed)
    \/ \E w \in Workers, slot \in Slots : download_resource(w, slot)
    \/ \E w \in Workers, slot \in Slots, content \in BOOLEAN,
          refers \in BOOLEAN :
          download_resource_fetched(w, slot, content, refers)
    \/ \E w \in Workers, slot \in Slots : download_resource_css_done(w, slot)
    \/ \E w \in Workers : download_resources_done(w)

SpecPages == InitPages /\ [][NextPages]_vars

(* The jobs of the API server: one job, run by any of the services.        *)
InitProgress ==
    /\ QueueInit({FixtureWorkers}, {MaxQueueSize}, {MaxRetries}, {MaxUrls})
    /\ InitHTTP({MaxBurst}, {MaxAttempts})
    /\ InitScraper({TRUE})
    /\ InitJob(Services)
    /\ InitPattern({<<>>})

NextProgress ==
    \/ \E enters \in BOOLEAN : run_scraper(enters)
    \/ \E raises \in BOOLEAN : scrape_documentation_starting(raises)
    \/ \E fails, raises \in BOOLEAN :
          scrape_documentation_discovering(fails, raises)
    \/ \E raises \in BOOLEAN : discover_pages(raises)
    \/ \E raises \in BOOLEAN : scrape_documentation_scraping(raises)
    \/ \E raises \in BOOLEAN : scrape_page(raises)
    \/ \E raises \in BOOLEAN : scrape_documentation_completed(raises)
    \/ \E raises \in BOOLEAN : scrape_documentation_error(raises)
    \/ \E raises \in BOOLEAN : scrape_topic_route_analysis(raises)
    \/ \E documentation, raises \in BOOLEAN :
          discover_routes_intelligently(documentation, raises)
    \/ \E raises \in BOOLEAN : scrape_topic_layout_detection(raises)
    \/ \E fails, raises \in BOOLEAN :
          scrape_topic_content_extraction(fails, raises)
    \/ \E raises \in BOOLEAN : scrape_topic_processing(raises)
    \/ \E fails, raises \in BOOLEAN : scrape_topic_completed(fails, raises)
    \/ \E raises \in BOOLEAN : scrape_topic_error(raises)
    \/ \E close_raises \in BOOLEAN : aexit(close_raises)
    \/ \E raises \in BOOLEAN : run_scraping_except(raises)
    \/ \E raises \in BOOLEAN : discover_topics_url_analysis(raises)
    \/ \E fails, raises \in BOOLEAN : discover_topics_page_fetch(fails, raises)
    \/ \E raises \in BOOLEAN : discover_topics_fetch_failed(raises)
    \/ \E fails, raises \in BOOLEAN :
          discover_topics_navigation_extraction(fails, raises)
    \/ \E fails, raises \in BOOLEAN : discover_topics_ai_analysis(fails, raises)
    \/ \E fails, raises \in BOOLEAN : discover_topics_complete(fails, raises)
    \/ \E raises \in BOOLEAN : discover_topics_error(raises)

SpecProgress == InitProgress /\ [][NextProgress]_vars

(* The route discovery of an intelligent scraping job on the site.         *)
InitRoutes ==
    /\ QueueInit({FixtureWorkers}, {MaxQueueSize}, {MaxRetries}, {MaxUrls})
    /\ InitHTTP({MaxBurst}, {MaxAttempts})
    /\ InitScraper({TRUE})
    /\ InitJob({"intelligent"})
    /\ InitPattern({<<>>})

NextRoutes ==
    \/ \E enters \in BOOLEAN : run_scraper(enters)
    \/ \E raises \in BOOLEAN : scrape_topic_route_analysis(raises)
    \/ discover_routes_begin
    \/ \E url \in SiteUrls, ok, documentation, raises \in BOOLEAN,
          links \in SUBSET SiteUrls :
          discover_route(url, ok, documentation, links, raises)

SpecRoutes == InitRoutes /\ [][NextRoutes]_vars

(* _normalize_url on the URLs of a site                                    *)
InitNormalization ==
    /\ QueueInit({FixtureWorkers}, {MaxQueueSize}, {MaxRetries}, {MaxUrls})
    /\ InitHTTP({MaxBurst}, {MaxAttempts})
    /\ InitScraper({TRUE})
    /\ InitJob({NoService})
    /\ InitUrlPattern({<<>>})
    /\ InitNormalize(NormalizeInputs)

NextNormalization ==
    \/ normalize_url
    \/ normalize_url_again

SpecNormalization == InitNormalization /\ [][NextNormalization]_vars

(* _extract_url_pattern on pairs of URLs of the same shape                 *)
InitPatterns ==
    /\ QueueInit({FixtureWorkers}, {MaxQueueSize}, {MaxRetries}, {MaxUrls})
    /\ InitHTTP({MaxBurst}, {MaxAttempts})
    /\ InitScraper({TRUE})
    /\ InitJob({NoService})
    /\ InitPattern(UrlPairs)

NextPatterns ==
    \/ extract_patterns
    \/ extract_patterns_again

SpecPatterns == InitPatterns /\ [][NextPatterns]_vars

(* A queue that never fills up, as in test_priority_ordering: the workers  *)
(* pop what the main task and the retries put.                             *)
InitOrder ==
    InitWith(1..FixtureWorkers, {MaxUrls + 1}, {MaxRetries}, {MaxUrls + 1})

NextOrder ==
    \/ \E raw \in RawUrls(pages) : Offer(raw)
    \/ start
    \/ \E w \in Workers : worker_get(w)
    \/ \E w \in Workers : processor_return(w)
    \/ \E w \in Workers : processor_raise(w)
    \/ \E w \in Workers : on_success_return(w)
    \/ \E w \in Workers : on_failure_done(w)

SpecOrder == InitOrder /\ [][NextOrder]_vars

(* A crawl that is never stopped, in which every awaited call returns and  *)
(* every task that can run is run: scrape_current_docs up to wait_complete,*)
(* the processor adding the pages it finds (queue_reference_pages) and the *)
(* callbacks only logging (on_url_success, on_url_failure).                *)
InitLive ==
    InitWith(1..FixtureWorkers, {MaxQueueSize}, {MaxRetries}, {MaxUrls + 1})

WorkerStep(w) ==
    \/ worker_get(w)
    \/ \E raw \in RawUrls(pages) : processor_add_url(w, raw)
    \/ processor_add_url_resume(w)
    \/ processor_return(w)
    \/ processor_raise(w)
    \/ on_success_return(w)
    \/ on_failure_done(w)
    \/ retry_put_resume(w)

NextLive ==
    \/ \E raw \in RawUrls(pages) : Offer(raw)
    \/ add_url_resume
    \/ start
    \/ wait_complete
    \/ wait_complete_return
    \/ \E w \in Workers : WorkerStep(w)

Fairness ==
    /\ WF_vars(add_url_resume)
    /\ WF_vars(wait_complete_return)
    /\ \A w \in Workers : WF_vars(WorkerStep(w))

SpecLive == InitLive /\ [][NextLive]_vars /\ Fairness

(* The crawl of the engine on its queue: scrape_current_docs adds the      *)
(* seeds, the workers run process_doc_url, which adds the pages of the     *)
(* navigation of an index; the processor returns or raises.                *)
InitSeeds ==
    InitWith({FixtureWorkers}, {MaxQueueSize}, {MaxRetries}, {MaxUrls + 1})

NextSeeds ==
    \/ start
    \/ \E raw \in RawUrls(pages), doc_type \in {REFERENCE, API} :
          scrape_current_docs_add(raw, doc_type)
    \/ add_url_resume
    \/ wait_complete
    \/ wait_complete_return
    \/ \E w \in Workers : worker_get(w)
    \/ \E w \in Workers, raw \in RawUrls(pages) : queue_reference_pages(w, raw)
    \/ \E w \in Workers : processor_add_url_resume(w)
    \/ \E w \in Workers : processor_return(w)
    \/ \E w \in Workers : processor_raise(w)
    \/ \E w \in Workers : on_success_return(w)
    \/ \E w \in Workers : on_failure_done(w)
    \/ \E w \in Workers : retry_put_resume(w)

SpecSeeds == InitSeeds /\ [][NextSeeds]_vars

(* A crawl that is never stopped on a queue that never fills up, in which  *)
(* save_state is called at any time; every awaited call returns and every  *)
(* task that can run is run.                                               *)
InitSave ==
    InitWith({FixtureWorkers}, {MaxUrls}, {MaxRetries}, {MaxUrls})

SaveWorkerStep(w) ==
    \/ worker_get(w)
    \/ processor_return(w)
    \/ processor_raise(w)
    \/ on_success_return(w)
    \/ on_failure_done(w)

NextSave ==
    \/ \E raw \in RawUrls(pages) : Offer(raw)
    \/ start
    \/ wait_complete
    \/ wait_complete_return
    \/ save_state
    \/ \E w \in Workers : SaveWorkerStep(w)

FairSave ==
    /\ WF_vars(wait_complete_return)
    /\ \A w \in Workers : WF_vars(SaveWorkerStep(w))

SpecSave == InitSave /\ [][NextSave]_vars /\ FairSave

(* The checkpoint of monitor_shutdown: save_state is the last thing done   *)
(* with the queue, which is shut down right after, and a newly constructed *)
(* queue loads the file (resume_from_checkpoint).                          *)
InitCheckpoint ==
    InitWith({1}, {MaxQueueSize + 1}, {MaxRetries}, {MaxUrls + 1})

NextCheckpoint ==
    \/ file = None /\ \E raw \in RawUrls(pages) : Offer(raw)
    \/ file = None /\ add_url_resume
    \/ file = None /\ start
    \/ file = None /\ wait_complete
    \/ file = None /\ wait_complete_return
    \/ file = None /\ \E w \in Workers : worker_get(w)
    \/ file = None /\ \E w \in Workers : processor_return(w)
    \/ file = None /\ \E w \in Workers : processor_raise(w)
    \/ file = None /\ \E w \in Workers : on_success_return(w)
    \/ file = None /\ \E w \in Workers : on_success_raise(w)
    \/ file = None /\ \E w \in Workers : on_failure_done(w)
    \/ save_state
    \/ load_state

SpecCheckpoint == InitCheckpoint /\ [][NextCheckpoint]_vars

(* The same, the process possibly crashing while it writes the checkpoint. *)
NextCrash ==
    \/ NextCheckpoint
    \/ save_state_crash
    \/ load_state_raise

SpecCrash == InitCheckpoint /\ [][NextCrash]_vars

(* A crawl interrupted by a graceful shutdown and resumed: the first run   *)
(* ends with the checkpoint, the second starts from the restored queue.    *)
(* The callbacks of the engine only log.                                   *)
Alive == file = None \/ resumed

NextResume ==
    \/ Alive /\ \E raw \in RawUrls(pages) : Offer(raw)
    \/ Alive /\ add_url_resume
    \/ Alive /\ start
    \/ Alive /\ wait_complete
    \/ Alive /\ wait_complete_return
    \/ Alive /\ \E w \in Workers : worker_get(w)
    \/ Alive /\ \E w \in Workers : processor_return(w)
    \/ Alive /\ \E w \in Workers : processor_raise(w)
    \/ Alive /\ \E w \in Workers : on_success_return(w)
    \/ Alive /\ \E w \in Workers : on_failure_done(w)
    \/ ~resumed /\ save_state
    \/ load_state
    \/ resume

SpecResume == InitCheckpoint /\ [][NextResume]_vars

(* =========================================================== properties *)
Sum(f, S) ==
    LET RECURSIVE Acc(_)
        Acc(T) == IF T = {} THEN 0
                  ELSE LET x == CHOOSE x \in T : TRUE
                       IN f[x] + Acc(T \ {x})
    IN Acc(S)

Places(u) ==
    (IF u \in Pending THEN 1 ELSE 0) + (IF u \in processing THEN 1 ELSE 0)
    + (IF u \in processed THEN 1 ELSE 0) + (IF u \in DOMAIN failed THEN 1 ELSE 0)

\* C1 -- terminal uniqueness: in every reachable state, suspension points of
\* the workers included, each normalized URL is in at most one of the pending
\* items, the processing set, the processed set and the failed map.
C1_TerminalUniqueness == \A u \in Urls : Places(u) <= 1

\* C2 -- dedup: a URL whose normalized form was already added is not enqueued
\* again, add_url puts exactly one item for every URL it accepted, and the
\* first outcome of a URL is final: a processed URL is never pending, failed
\* or processed again, and a failed URL is never pending or processed.
C2_Dedup ==
    \A u \in Urls :
        /\ hist[u].enqueued <= 1
        /\ u \in processed => u \notin Pending /\ u \notin DOMAIN failed
        /\ u \in DOMAIN failed => u \notin Pending
        /\ hist[u].returned + hist[u].failures <= 1

\* C3 -- retry bound: the processor is invoked at most max_retries + 1 times
\* on a URL. For a URL whose processor raised every time: once it is in the
\* failed map it was invoked exactly max_retries + 1 times, retried
\* max_retries times, counted as failed once and passed to on_failure once;
\* and, unless stop() was called, it is in the failed map as soon as its
\* invocation number max_retries + 1 is over. The total_retried and
\* total_failed counters are the sums over the URLs.
C3_RetryBound ==
    /\ \A u \in Urls :
         /\ hist[u].invoked <= max_retries + 1
         /\ (u \in DOMAIN failed /\ hist[u].returned = 0) =>
               /\ hist[u].invoked = max_retries + 1
               /\ hist[u].retried = max_retries
               /\ hist[u].failures = 1
               /\ hist[u].on_failure = 1
         /\ (/\ hist[u].returned = 0
             /\ hist[u].invoked = max_retries + 1
             /\ u \notin processing
             /\ ~stop_requested) => u \in DOMAIN failed
    /\ stats.total_retried = Sum([u \in Urls |-> hist[u].retried], Urls)
    /\ stats.total_failed = Sum([u \in Urls |-> hist[u].failures], Urls)

\* a URL is in the failed map after max_retries >= 1 retries, every
\* invocation of its processor having raised
C3_Witness ==
    \E u \in DOMAIN failed :
        /\ max_retries >= 1
        /\ hist[u].returned = 0
        /\ hist[u].invoked = max_retries + 1
        /\ hist[u].on_failure = 1

\* C6 -- queue-full drop: an add_url that finds the queue full returns
\* without blocking and does not leave the URL in seen_urls, so every URL of
\* seen_urls was put into the queue and no task is suspended in add_url.
C6_QueueFullDrop ==
    /\ mpc # "add_put"
    /\ \A u \in seen_urls : hist[u].enqueued >= 1

\* C7 -- wait_complete returns only when the queue is empty, nothing is being
\* processed and every seen URL is processed or failed, stop() or not; and
\* on_complete is then invoked exactly once.
C7_WaitComplete ==
    [][(mpc # "done" /\ mpc' = "done") =>
          /\ heap' = <<>>
          /\ processing' = {}
          /\ seen_urls' \subseteq (processed' \cup DOMAIN failed')
          /\ on_complete_calls' = 1]_vars

\* C4 -- priority order: a pop returns an item whose priority value is
\* minimal among the pending items, so of two pending items the one with
\* the lower priority value is popped first.
C4_PriorityOrder ==
    [][\A w \in Workers :
          (wpc[w] = "get" /\ wpc'[w] = "processor") =>
              \A i \in PendingItems(heap) : witem'[w].priority <= i.priority]_vars

\* the first pop of a URL took the item of lowest priority value and left
\* two pending items of higher priority values, not popped yet
C4_Witness ==
    \E w \in Workers :
        /\ wpc[w] = "processor"
        /\ Len(heap) >= 2
        /\ \A i \in PendingItems(heap) : witem[w].priority < i.priority
        /\ \A u \in Pending : hist[u].invoked = 0
        /\ hist[witem[w].url].invoked = 1

\* C5 -- FIFO within priority: a pop returns, among the pending items of the
\* priority it returns, the one that was put first; a retried item, put back
\* at LOW, is popped after the LOW items that were waiting.
C5_FifoWithinPriority ==
    [][\A w \in Workers :
          (wpc[w] = "get" /\ wpc'[w] = "processor") =>
              \A i \in PendingItems(heap) :
                  i.priority = witem'[w].priority =>
                      Position(fifo, witem'[w].url) <= Position(fifo, i.url)]_vars

\* C8 -- completion liveness: once the workers run and wait_complete is
\* waiting, with no stop requested, every awaited call returning and the
\* tasks scheduled fairly, wait_complete eventually returns.
C8_CompletionLiveness == (mpc = "joining" /\ running) ~> (mpc = "done")

\* C9 -- monotone visited: no step of the queue (add_url, a worker's success,
\* failure or retry, save_state) removes a URL from seen_urls.
C9_MonotoneVisited == [][seen_urls \subseteq seen_urls']_vars

\* after a success, a retry, a final failure and a save_state, the seen URLs
\* are all still there
C9_Witness ==
    /\ file # None
    /\ processed # {}
    /\ DOMAIN failed # {}
    /\ stats.total_retried >= 1
    /\ (processed \cup DOMAIN failed) \subseteq seen_urls

C11_RestoredPartition ==
    fresh # None =>
        LET restored == { i.url : i \in PendingItems(fresh.heap) }
            terminal == fresh.processed \cup DOMAIN fresh.failed
        IN /\ fresh.seen_urls = terminal \cup restored
           /\ restored \cap terminal = {}
           /\ Len(fresh.heap) = Cardinality(fresh.seen_urls \ terminal)

\* C12 -- resume equivalence: when the resumed run has completed, every URL
\* that was queued or in processing at the checkpoint is processed or
\* failed, and no URL that was processed at the checkpoint has been given to
\* the processor again.
C12_ResumeEquivalence ==
    (resumed /\ mpc = "done") =>
        /\ ({ i.url : i \in DOMAIN snap.pending } \cup snap.processing)
              \subseteq (processed \cup DOMAIN failed)
        /\ \A u \in snap.processed : hist[u].invoked = snap.hist[u].invoked

\* C13 -- atomic checkpoint: whenever the process crashes, the checkpoint on
\* the disk is a complete one (or there is none), and a resume never reads a
\* partially written file.
C13_AtomicCheckpoint == file # Torn /\ fresh # JSONDecodeError

\* C20 -- rate bound: of the acquire calls that return within a window of
\* time of length W, there are at most rate * W + burst; in particular no
\* more than burst of them return at the same instant.
C20_RateBound ==
    \A i, j \in DOMAIN grants :
        i <= j => (j - i + 1) <= rate * (grants[j] - grants[i]) + burst

\* C14 -- retry on retryable failures: a fetch whose every attempt ended in a
\* transport error, a timeout or a 5xx status has sent exactly retry_attempts
\* requests when it returns nil, and failed_requests has grown by exactly 1;
\* a fetch that returns a response has sent exactly k requests, k <=
\* retry_attempts, the k-th being the first answered with a status < 400.
C14_RetryOnRetryable ==
    /\ (fpc = "returned" /\ result = "nil"
            /\ fhist.throttled = 0 /\ fhist.rejected = 0)
         => /\ fhist.requests = retry_attempts
            /\ fhist.retryable = retry_attempts
            /\ cstats.failed_requests = fhist.failed_before + 1
    /\ (fpc = "returned" /\ result = "response")
         => /\ fhist.requests = fhist.retryable + fhist.throttled + 1
            /\ fhist.requests <= retry_attempts
            /\ fhist.rejected = 0
            /\ cstats.failed_requests = fhist.failed_before

\* a fetch with the largest retry_attempts has failed on every attempt with a
\* retryable failure and returned nil
C14_Witness ==
    /\ fpc = "returned" /\ result = "nil"
    /\ retry_attempts = MaxAttempts
    /\ fhist.retryable = MaxAttempts
    /\ fhist.requests = MaxAttempts

\* C15 -- a 4xx status other than 429 is not retried: once such a response
\* is received the fetch has returned nil, no request has followed it (one
\* request in all when it answered the first), and failed_requests has grown
\* by exactly 1.
C15_NoRetryOnClientError ==
    fhist.rejected > 0
        => /\ fpc = "returned" /\ result = "nil"
           /\ fhist.rejected = 1
           /\ fhist.requests = fhist.retryable + fhist.throttled + 1
           /\ cstats.failed_requests = fhist.failed_before + 1

\* a fetch with retries to spare has got a 4xx status for its first request
C15_Witness ==
    /\ fpc = "returned" /\ result = "nil"
    /\ retry_attempts = MaxAttempts
    /\ fhist.rejected = 1
    /\ fhist.requests = 1
    /\ cstats.total_requests = 1

\* C16 -- 429 responses are outside the retry budget: a fetch that gives up
\* (returns nil without having received a non-retryable 4xx status) has spent
\* all of its retry_attempts on transport errors, timeouts and 5xx statuses,
\* however many 429 responses it has slept through.
C16_ThrottleOutsideBudget ==
    (fpc = "returned" /\ result = "nil" /\ fhist.rejected = 0)
        => fhist.retryable = retry_attempts

\* C17 -- fetch terminates whatever the server answers: one fetch call sends
\* a bounded number of requests, at most retry_attempts, and sleeps through at
\* most retry_attempts 429 responses, even when every answer is a 429.
C17_BoundedRequests ==
    /\ fhist.requests <= retry_attempts
    /\ fhist.sleeps <= retry_attempts
    /\ attempt <= retry_attempts
    /\ fhist.requests <= attempt + 1

\* a fetch whose every request was answered with a 429 has returned
C17_Witness ==
    /\ fpc = "returned" /\ result = "nil"
    /\ retry_attempts = MaxAttempts
    /\ fhist.throttled = MaxAttempts
    /\ fhist.sleeps = MaxAttempts

\* C18 -- cross-counter invariant of the statistics: in every state,
\* successful_requests + failed_requests <= total_requests.
C18_CountersWithinTotal ==
    cstats.successful_requests + cstats.failed_requests
        <= cstats.total_requests

\* C19 -- classification of the statistics: successful_requests is the number
\* of requests answered with a status < 400; a request answered with a 4xx or
\* 5xx status is not counted in it.
C19_SuccessfulMeansBelow400 ==
    cstats.successful_requests = answered.ok

C22_NoItemAbandoned ==
    (stop_requested /\ \A w \in Workers : wpc[w] = "none")
        => \A u \in Urls :
              hist[u].invoked > 0
                  => u \in processed \/ u \in DOMAIN failed \/ u \in Pending

\* C23 -- stop() is idempotent: a call of stop() on a queue that is not
\* running (never started, or stopped before) leaves running = False, cancels
\* nothing and changes neither the workers, nor the tracking sets, nor the
\* pending items, nor the counters; and after any stop() running is False.
C23_StopIdempotent ==
    [][(stops' = stops + 1)
          => /\ ~running'
             /\ ~running
                  => UNCHANGED <<heap, unfinished, setvars, stats, wpc, witem,
                                 wput, cancelled, mpc, mput, on_complete_calls,
                                 file, fresh>>]_vars

\* stop() was called twice on a queue that had been started, all workers
\* being gone before the second call; a URL is processed and one is pending
C23_Witness ==
    /\ stops = 2
    /\ ~running
    /\ \A w \in Workers : wpc[w] = "none"
    /\ cancelled = {}
    /\ processed # {}
    /\ heap # <<>>

\* C24 -- a page whose fetch returned nil is a failure for the queue: its URL
\* is never in the processed set.
C24_NilFetchFails == fetched_nil \cap processed = {}

\* C25 -- each static resource is fetched at most once: its cache slot is
\* written at most once, no two fetches of the same URL are in flight at the
\* same time, and no fetch of a URL is in flight once the URL is in the
\* cache.
C25_ResourceFetchedOnce ==
    \A url \in Resources :
        LET fetching == { <<w, slot>> \in Workers \X Slots :
                            /\ ResourceOf(slot) = url
                            /\ dtask[w][slot] \in {"fetching", "css"} }
        IN /\ cache_writes[url] <= 1
           /\ Cardinality(fetching) <= 1
           /\ url \in DOMAIN static_cache => fetching = {}

\* C26 -- the template slot of each DocType is written at most once, by the
\* first page of that DocType that is processed, whatever the interleaving of
\* the workers; it holds a template exactly when it was written.
C26_TemplateSingleton ==
    \A doc_type \in DocType :
        /\ template_writes[doc_type] <= 1
        /\ doc_type \in templates <=> template_writes[doc_type] = 1
        /\ doc_type # GUIDE /\ pages_of[doc_type] > 0 => doc_type \in templates

\* two workers are processing pages at the same time, a third page has been
\* processed, at least two of them are reference pages, and the reference
\* slot was written once
C26_Witness ==
    /\ \A w \in Workers : ppc[w] = "gather"
    /\ pages_of[REFERENCE] >= 2
    /\ pages_of[REFERENCE] + pages_of[API] = MaxPages
    /\ template_writes[REFERENCE] = 1

\* C27 -- every progress value delivered through the progress callback for
\* the task id is within 0..100 and is not below the one delivered before
\* it, unless it is the 0 of an error event.
C27_ProgressMonotone ==
    [][/\ last_progress' \in 0..100
       /\ \/ last_progress' >= last_progress
          \/ delivered'.stage = "error" /\ last_progress' = 0]_vars

\* a scraping job found every page up to the limit, went through all of
\* them and completed: the progress went from its first value to 100
C27_Witness ==
    /\ service \in {"basic", "intelligent"}
    /\ found = (IF service = "basic" THEN page_limit ELSE route_limit)
    /\ scraped = found
    /\ delivered.stage = "completed"
    /\ last_progress = 100

\* C28 -- once an error event has been emitted for the job, no event of any
\* stage is emitted for it any more.
C28_NothingAfterError == Len(since_error) <= 1

\* C30 -- two URLs that differ only in the values of their dynamic segments
\* have the same pattern, and the pattern of a pattern is that pattern.
C30_PatternStable ==
    /\ patterns # <<>> => patterns[1] = patterns[2]
    /\ repatterns # <<>> => repatterns = patterns

\* C29 -- of the URLs that look dynamic and have the same pattern, at most
\* one is requested from the site.
C29_PatternCollapse ==
    \A a, b \in fetched :
        /\ is_likely_dynamic_route(a)
        /\ is_likely_dynamic_route(b)
        /\ extract_url_pattern(a) = extract_url_pattern(b)
        => a = b

\* C31 -- normalising a normalised URL returns it unchanged.
C31_NormalizeIdempotent ==
    renormalized # <<>> => renormalized = normalized

\* C32 -- the normalised URL is scheme://host, the path without its
\* trailing slashes unless it is the root path "/", which is kept, and "?"
\* with the query as it was given, if there is one; the fragment is gone.
C32_NormalizeRules ==
    normalized # <<>> =>
        LET given == urlparse(given_url)
            path == IF given.path = <<"/">> THEN given.path
                                            ELSE rstrip(given.path)
        IN normalized = text(Url(path, given.query, <<>>))

\* C33 -- checkpoint file lifecycle: when a run has ended, the checkpoint
\* file is absent if the run completed all its phases, and it is present
\* only if the run was ended by a shutdown signal with checkpointing
\* enabled; a run that received no signal has not written the file.
C33_CheckpointLifecycle ==
    /\ mpc = "ended" =>
          /\ end_time => checkpoint_file = None
          /\ checkpoint_file # None => shutdown_event /\ save_checkpoint
    /\ ~shutdown_event => ~created

C36_Items ==
    { witem[w] : w \in Workers } \cup { wput[w] : w \in Workers }
        \cup {mput} \cup PendingItems(heap)

C36_OnlyIndexEnqueues ==
    /\ [](\A item \in C36_Items \ {NoItem} :
            /\ item.metadata.kind = "doc"
            /\ item.priority = (IF item.retry_count > 0 THEN LOW
                                ELSE IF item.metadata.is_index THEN HIGH
                                ELSE NORMAL))
    /\ [][\A item \in PendingItems(heap') :
            hist'[item.url].enqueued > hist[item.url].enqueued
                => /\ item.retry_count = 0
                   /\ ~item.metadata.is_index
                        => \E w \in Workers :
                              /\ wpc[w] \in {"processor", "processor_put"}
                              /\ witem[w].metadata = Seed(REFERENCE)
       ]_vars

\* a worker that is processing a reference seed has enqueued a page of its
\* navigation, which is pending at NORMAL with is_index false, while another
\* URL has been processed
C36_Witness ==
    /\ \E w \in Workers :
          /\ wpc[w] = "processor"
          /\ witem[w] = QueueItem(witem[w].url, HIGH, Seed(REFERENCE), 0)
    /\ \E item \in PendingItems(heap) :
          item = QueueItem(item.url, NORMAL, PageMeta, 0)
    /\ processed # {}

\* C37 -- token-bucket state invariant: the tokens of the RateLimiter are
\* never below 0 and never above burst.
C37_TokensWithinBucket == 0 <= tokens /\ tokens <= burst * resolution

\* C38 -- rate-limiter liveness: every call of acquire returns in the end,
\* whatever the burst that AsyncHTTPClient computes from its rate_limit and
\* however many tasks call it.
C38_AcquireReturns ==
    \A c \in Callers : (apc[c] # "idle") ~> (apc[c] = "idle")

\* C39 -- save_state leaves the queue as it was: the same multiset of pending
\* items, the same tracking sets and the same count of outstanding work; and
\* a wait_complete of a running queue returns in the end, also after a
\* save_state.
C39_SaveStateFrame ==
    /\ [][saves' > saves =>
            /\ BagOf(drain(heap')) = BagOf(drain(heap))
            /\ setvars' = setvars
            /\ unfinished' = unfinished]_vars
    /\ (mpc = "joining" /\ running) ~> (mpc = "done")

\* C40 -- when the monitor_shutdown task has come to its end after the first
\* signal, by returning or by an exception of the checkpoint write, the queue
\* is stopped and the other tasks were cancelled.
C40_ShutdownDespiteWriteError ==
    spc \in {"done", "raised"} =>
        /\ ~running
        /\ \E i \in DOMAIN events : events[i] = "stop"
        /\ \E i \in DOMAIN events : events[i] = "cancel"

\* C34 -- the processing set holds exactly the URLs of the items the workers
\* hold, so it has at most max_workers members and is empty when no worker
\* holds an item; an item that is popped enters the set, and on the step in
\* which a worker lets go of its item, by whatever path, the URL leaves the
\* set and the work that is outstanding and not in the queue goes down by
\* exactly one.
C34_ProcessingAccounting ==
    /\ [](/\ processing = { witem[w].url : w \in { v \in Workers : witem[v] # NoItem } }
          /\ Cardinality(processing) <= max_workers)
    /\ [][\A w \in Workers :
            /\ witem[w] = NoItem /\ witem'[w] # NoItem
                 => witem'[w].url \in processing'
            /\ witem[w] # NoItem /\ witem'[w] = NoItem
                 => /\ witem[w].url \notin processing'
                    /\ unfinished' - Len(heap') = unfinished - Len(heap) - 1]_vars

\* one URL failed for good after a retry, a worker was cancelled while the
\* processor was at work on another, and no item is held any more
C34_Witness ==
    /\ DOMAIN failed # {}
    /\ stats.total_retried > 0
    /\ stop_requested
    /\ \E u \in Urls :
          hist[u].invoked > hist[u].returned + hist[u].retried + hist[u].failures
    /\ \A w \in Workers : witem[w] = NoItem /\ wpc[w] = "none"
    /\ processing = {}

TypeOK ==
    /\ Len(heap) <= max_queue_size
    /\ unfinished >= 0
    /\ seen_urls \subseteq Urls

====
